---------------------------- MODULE Spec2Model ----------------------------
(***************************************************************************)
(* Rate limiter (RateLimitService) and conversation store                  *)
(* (DatabaseService) of the Cloudflare agent worker.                       *)
(*                                                                         *)
(* Every piece of mutable state lives in the key-value namespace (kv) or   *)
(* in the conversations table (rows).  A call is an async method: it runs  *)
(* on one of the execution contexts of Procs and takes one step per await, *)
(* so that calls of different contexts interleave at the store operations. *)
(* Every store operation may fail (\E ok \in BOOLEAN).  The optional       *)
(* metadata column is carried through unread and is left out of the rows.  *)
(*                                                                         *)
(* RLSpec / DBSpec: concurrent callers.  RLSeqSpec / DBSeqSpec: one caller *)
(* (Caller) issuing its calls one after another.                           *)
(***************************************************************************)
EXTENDS Integers, Sequences, FiniteSets, TLC

VARIABLES
    now,        \* Date.now(), epoch milliseconds
    kv,         \* env.CACHE: key -> NoEntry or [value, expires]
    pc,         \* per execution context: the await the call is suspended at
    loc,        \* per execution context: the locals of the call in progress
    nCalls,     \* number of rate limiter calls started so far
    served,     \* history: checkRateLimit calls completed, per identifier and window
    admitted,   \* history: those that returned blocked = false
    dirty,      \* history: a storage failure or a late store operation hit (identifier, window)
    rows,       \* env.DB: the rows of table conversations
    nextId,     \* number of message ids generated so far
    appended,   \* history: per conversation, the ids inserted since its last deletion, in order
    faulty,     \* history: per conversation, an insert or a retention step failed
    retentionFailed, \* history: the last retention step of the conversation failed
    emptied,    \* history: -1, or the number of rows removed by the deletion that emptied the
                \* conversation, nothing having been inserted since
    everStored, \* history: the conversation ids a row was ever inserted for
    lastStats,  \* history: totalMessages of the last successful getConversationStats (-1:
                \* none yet) and the operations that removed rows since its row count
    req         \* the HTTP request the worker's fetch handler is working on for Caller:
                \* its position, its locals, the calls it made and its response

rlVars == <<kv, nCalls, served, admitted, dirty>>
dbVars == <<rows, nextId, appended, faulty, retentionFailed, emptied, everStored, lastStats>>
vars == <<now, kv, pc, loc, nCalls, served, admitted, dirty,
          rows, nextId, appended, faulty, retentionFailed, emptied, everStored, lastStats,
          req>>

----------------------------------------------------------------------------
(* Bounds of the model *)

limitPerMinute == 2
MaxCalls == 3
maxHistoryLength == 2
MaxMsgs == 3

(* Program constants *)

WindowMs == 60000
ExpirationTtl == 120
HistoryWindow == 10
MaxInputLength == 10000

Procs == {"p1", "p2"}
Identifiers == {"u1", "u2"}
ConversationIds == {"c1", "c2"}
Inputs == {<<"user", "hi">>}

(* instants of the clock: the first and the last millisecond of the windows; an  *)
(* entry written at 0 expires at 2 * WindowMs                                    *)
Windows == {0, WindowMs, 2 * WindowMs}
RLTimes == {0, WindowMs - 1, WindowMs, 2 * WindowMs - 1, 2 * WindowMs}
(* instants of the clock for the conversation store: consecutive milliseconds *)
DBTimes == 1..(MaxMsgs - 1)
(* the conversation and the instants of the concurrent callers *)
SharedConversation == {"c1"}
SharedTimes == {1}

Null == <<>>
NoEntry == [absent |-> TRUE]
NoResult == [none |-> TRUE]
NoRequest == [step |-> "none"]

Max(a, b) == IF a >= b THEN a ELSE b
Min(a, b) == IF a <= b THEN a ELSE b

----------------------------------------------------------------------------
(* Key-value namespace: get / put with expirationTtl *)

KeyOf(identifier) == <<"rate_limit", identifier>>

Keys == {KeyOf(i) : i \in Identifiers}

JSONstringify(data) == <<data.count, data.window>>

JSONparse(text) == [count |-> text[1], window |-> text[2]]

KvGet(store, key, t) ==
    IF store[key] = NoEntry THEN Null
    ELSE IF t >= store[key].expires THEN Null ELSE store[key].value

(* variant: the time to live taken as milliseconds *)
KvPutTtlInMs(store, key, value, ttl, t) ==
    [store EXCEPT ![key] = [value |-> value, expires |-> t + ttl]]

(* variant: the value is written under every key *)
KvPutEveryKey(store, key, value, ttl, t) ==
    [k \in DOMAIN store |-> [value |-> value, expires |-> t + ttl * 1000]]

KvPut(store, key, value, ttl, t) ==
    [store EXCEPT ![key] = [value |-> value, expires |-> t + ttl * 1000]]

----------------------------------------------------------------------------
(* RateLimitService *)

(* variant: Math.round in place of Math.floor *)
WindowStartRounded(t) == ((t + WindowMs \div 2) \div WindowMs) * WindowMs

WindowStart(t) == (t \div WindowMs) * WindowMs

(* variant: the window length is not added *)
WindowEndAtStart(windowStart) == windowStart

WindowEnd(windowStart) == windowStart + WindowMs

(* variant: the stored window is not compared *)
ParseCountAnyWindow(current, windowStart) ==
    IF current # Null THEN JSONparse(current).count ELSE 0

ParseCount(current, windowStart) ==
    IF current # Null
    THEN LET parsed == JSONparse(current)
         IN  IF parsed.window = windowStart THEN parsed.count ELSE 0
    ELSE 0

Remaining(count) == Max(0, limitPerMinute - count)

(* variant: the comparison never holds *)
BlockedNever(remaining) == remaining < 0

Blocked(remaining) == remaining = 0

(* variants: the count is not incremented, or incremented twice *)
NewDataNoIncrement(count, windowStart) == [count |-> count, window |-> windowStart]

NewDataDouble(count, windowStart) == [count |-> count + 2, window |-> windowStart]

(* variant: the counter is tagged with the window after the one computed *)
NewDataTaggedAhead(count, windowStart) == [count |-> count + 1, window |-> windowStart + WindowMs]

NewData(count, windowStart) == [count |-> count + 1, window |-> windowStart]

CheckResult(remaining, blocked, windowEnd) ==
    [remaining |-> IF blocked THEN 0 ELSE remaining - 1,
     resetTime |-> windowEnd,
     blocked   |-> blocked]

(* variant: the catch block blocks the request *)
CheckFailClosed(windowEnd) ==
    [remaining |-> 0, resetTime |-> windowEnd, blocked |-> TRUE]

CheckFailOpen(windowEnd) ==
    [remaining |-> limitPerMinute - 1, resetTime |-> windowEnd, blocked |-> FALSE]

(* variant: the result of checkRateLimit, which counts the call itself *)
StatusResultConsuming(remaining, windowEnd) ==
    [remaining |-> Max(0, remaining - 1), resetTime |-> windowEnd, blocked |-> remaining = 0]

StatusResult(remaining, windowEnd) ==
    [remaining |-> remaining, resetTime |-> windowEnd, blocked |-> remaining = 0]

StatusFailOpen(windowEnd) ==
    [remaining |-> limitPerMinute, resetTime |-> windowEnd, blocked |-> FALSE]

IdleLoc == [op |-> "none"]

(* a finished call has handed its result to its caller by the next step of  *)
(* the system: its context is idle again and its locals are gone           *)
Settled == [q \in Procs |-> IF pc[q] = "done" THEN "idle" ELSE pc[q]]
Cleared == [q \in Procs |-> IF pc[q] = "done" THEN IdleLoc ELSE loc[q]]

Caller == "p1"

InWindow(l) == l.inWindow /\ now < l.windowEnd

(* history bookkeeping at the completion of a checkRateLimit call *)
Complete(l, result, failed) ==
    LET i == l.identifier
        w == l.windowStart
    IN  /\ served' = [served EXCEPT ![i][w] = @ + 1]
        /\ admitted' = [admitted EXCEPT ![i][w] = IF result.blocked THEN @ ELSE @ + 1]
        /\ dirty' = [dirty EXCEPT ![i][w] = @ \/ failed \/ ~InWindow(l)]

(* lines 13-18: the key and the window are fixed before the first await *)
CheckStart(p, identifier) ==
    /\ pc[p] \in {"idle", "done"}
    /\ nCalls < MaxCalls
    /\ nCalls' = nCalls + 1
    /\ pc' = [Settled EXCEPT ![p] = "rl_get"]
    /\ loc' = [Cleared EXCEPT ![p] =
                 [op          |-> "check",
                  identifier  |-> identifier,
                  key         |-> KeyOf(identifier),
                  windowStart |-> WindowStart(now),
                  windowEnd   |-> WindowEnd(WindowStart(now)),
                  current     |-> Null,
                  count       |-> 0,
                  inWindow    |-> TRUE,
                  failed      |-> FALSE,
                  gets        |-> 0,
                  puts        |-> 0,
                  log         |-> <<>>,
                  outcome     |-> "pending",
                  result      |-> NoResult]]
    /\ UNCHANGED <<now, kv, served, admitted, dirty>>
    /\ UNCHANGED dbVars

(* variant: the catch block tries the store operations again *)
CheckCatchRetrying(p, l) ==
    /\ pc' = [Settled EXCEPT ![p] = "rl_get"]
    /\ loc' = [Cleared EXCEPT ![p] = [l EXCEPT !.log = Append(@, "error")]]
    /\ UNCHANGED <<kv, served, admitted, dirty>>

(* the catch block of checkRateLimit, lines 53-61 *)
CheckCatch(p, l) ==
    LET result == CheckFailOpen(l.windowEnd)
    IN  /\ pc' = [Settled EXCEPT ![p] = "done"]
        /\ loc' = [Cleared EXCEPT ![p] =
                     [l EXCEPT !.failed = TRUE,
                               !.log = Append(@, "error"),
                               !.outcome = "returned",
                               !.result = result]]
        /\ Complete(l, result, TRUE)
        /\ UNCHANGED kv

(* lines 20-31 and, when blocked, 41-52 *)
CheckGet(p) ==
    /\ pc[p] = "rl_get"
    /\ \E ok \in BOOLEAN :
         LET l == [loc[p] EXCEPT !.gets = @ + 1, !.inWindow = InWindow(loc[p])]
         IN  IF ~ok
             THEN CheckCatch(p, l)
             ELSE LET current   == KvGet(kv, l.key, now)
                      count     == ParseCount(current, l.windowStart)
                      remaining == Remaining(count)
                      blocked   == Blocked(remaining)
                      result    == CheckResult(remaining, blocked, l.windowEnd)
                  IN  IF blocked
                      THEN /\ pc' = [Settled EXCEPT ![p] = "done"]
                           /\ loc' = [Cleared EXCEPT ![p] =
                                        [l EXCEPT !.current = current,
                                                  !.count = count,
                                                  !.log = Append(@, "debug"),
                                                  !.outcome = "returned",
                                                  !.result = result]]
                           /\ Complete(l, result, FALSE)
                           /\ UNCHANGED kv
                      ELSE /\ pc' = [Settled EXCEPT ![p] = "rl_put"]
                           /\ loc' = [Cleared EXCEPT ![p] =
                                        [l EXCEPT !.current = current, !.count = count]]
                           /\ UNCHANGED <<kv, served, admitted, dirty>>
    /\ UNCHANGED <<now, nCalls>>
    /\ UNCHANGED dbVars

(* lines 33-52 *)
CheckPut(p) ==
    /\ pc[p] = "rl_put"
    /\ \E ok \in BOOLEAN :
         LET l == [loc[p] EXCEPT !.puts = @ + 1, !.inWindow = InWindow(loc[p])]
         IN  IF ~ok
             THEN CheckCatch(p, l)
             ELSE LET remaining == Remaining(l.count)
                      result    == CheckResult(remaining, FALSE, l.windowEnd)
                  IN  /\ kv' = KvPut(kv, l.key,
                                     JSONstringify(NewData(l.count, l.windowStart)),
                                     ExpirationTtl, now)
                      /\ pc' = [Settled EXCEPT ![p] = "done"]
                      /\ loc' = [Cleared EXCEPT ![p] =
                                   [l EXCEPT !.log = Append(@, "debug"),
                                             !.outcome = "returned",
                                             !.result = result]]
                      /\ Complete(l, result, FALSE)
    /\ UNCHANGED <<now, nCalls>>
    /\ UNCHANGED dbVars

(* getRateLimitStatus, lines 64-69 *)
StatusStart(p, identifier) ==
    /\ pc[p] \in {"idle", "done"}
    /\ nCalls < MaxCalls
    /\ nCalls' = nCalls + 1
    /\ pc' = [Settled EXCEPT ![p] = "st_get"]
    /\ loc' = [Cleared EXCEPT ![p] =
                 [op          |-> "status",
                  identifier  |-> identifier,
                  key         |-> KeyOf(identifier),
                  windowStart |-> WindowStart(now),
                  windowEnd   |-> WindowEnd(WindowStart(now)),
                  current     |-> Null,
                  count       |-> 0,
                  inWindow    |-> TRUE,
                  failed      |-> FALSE,
                  gets        |-> 0,
                  puts        |-> 0,
                  log         |-> <<>>,
                  outcome     |-> "pending",
                  result      |-> NoResult]]
    /\ UNCHANGED <<now, kv, served, admitted, dirty>>
    /\ UNCHANGED dbVars

(* getRateLimitStatus, lines 70-95 *)
StatusGet(p) ==
    /\ pc[p] = "st_get"
    /\ \E ok \in BOOLEAN :
         LET l == [loc[p] EXCEPT !.gets = @ + 1, !.inWindow = InWindow(loc[p])]
         IN  IF ~ok
             THEN loc' = [Cleared EXCEPT ![p] =
                            [l EXCEPT !.failed = TRUE,
                                      !.log = Append(@, "error"),
                                      !.outcome = "returned",
                                      !.result = StatusFailOpen(l.windowEnd)]]
             ELSE LET current   == KvGet(kv, l.key, now)
                      count     == ParseCount(current, l.windowStart)
                      remaining == Remaining(count)
                  IN  loc' = [Cleared EXCEPT ![p] =
                                [l EXCEPT !.current = current,
                                          !.count = count,
                                          !.outcome = "returned",
                                          !.result = StatusResult(remaining, l.windowEnd)]]
    /\ pc' = [Settled EXCEPT ![p] = "done"]
    /\ UNCHANGED <<now, kv, nCalls, served, admitted, dirty>>
    /\ UNCHANGED dbVars

----------------------------------------------------------------------------
(* helpers.ts and the conversations table *)

(* new Date().toISOString(): YYYY-MM-DDTHH:mm:ss.sssZ, as its fixed-width   *)
(* fields (the instants of the model lie in January 1970)                   *)
getCurrentTimestamp(t) ==
    <<1970, 1, 1 + (t \div 86400000), (t \div 3600000) % 24,
      (t \div 60000) % 60, (t \div 1000) % 60, t % 1000>>

(* generateId(): crypto.randomUUID(), a value not generated before *)
generateId(n) == n + 1

(* comparison of two TEXT timestamps: field by field, left to right *)
TextLess(a, b) ==
    \E i \in 1..Len(a) : a[i] < b[i] /\ \A j \in 1..(i - 1) : a[j] = b[j]

RowsOf(table, c) == {r \in table : r.conversationId = c}

(* INSERT INTO conversations ... VALUES (...) *)
InsertRow(table, message) == table \cup {message}

(* SELECT ... WHERE conversation_id = ? ORDER BY timestamp DESC LIMIT ?:     *)
(* the sets of rows the query may yield; rows of equal timestamp come in    *)
(* an order the query does not fix                                          *)
(* variant: LIMIT off by one *)
TopByTimestampDescOneMore(table, c, n) ==
    LET S == RowsOf(table, c)
    IN  {K \in SUBSET S :
           /\ Cardinality(K) = Min(n + 1, Cardinality(S))
           /\ \A k \in K, r \in S \ K : ~TextLess(k.timestamp, r.timestamp)}

(* variant: ORDER BY timestamp ASC in the subquery *)
TopByTimestampAsc(table, c, n) ==
    LET S == RowsOf(table, c)
    IN  {K \in SUBSET S :
           /\ Cardinality(K) = Min(n, Cardinality(S))
           /\ \A k \in K, r \in S \ K : ~TextLess(r.timestamp, k.timestamp)}

TopByTimestampDesc(table, c, n) ==
    LET S == RowsOf(table, c)
    IN  {K \in SUBSET S :
           /\ Cardinality(K) = Min(n, Cardinality(S))
           /\ \A k \in K, r \in S \ K : ~TextLess(k.timestamp, r.timestamp)}

(* DELETE ... WHERE conversation_id = ? AND id NOT IN (kept) *)
(* variant: the conversation left out of the condition *)
DeleteNotInAnyConversation(table, c, kept) ==
    {r \in table : r.id \in {k.id : k \in kept}}

DeleteNotIn(table, c, kept) ==
    {r \in table : ~(r.conversationId = c /\ r.id \notin {k.id : k \in kept})}

(* SELECT ... WHERE conversation_id = ? ORDER BY timestamp ASC LIMIT ? *)
SelectByTimestampAsc(table, c, n) ==
    LET S == RowsOf(table, c)
        k == Min(n, Cardinality(S))
    IN  {s \in [1..k -> S] :
           /\ \A a, b \in 1..k : a < b =>
                s[a] # s[b] /\ ~TextLess(s[b].timestamp, s[a].timestamp)
           /\ \A r \in S \ {s[a] : a \in 1..k} :
                \A a \in 1..k : ~TextLess(r.timestamp, s[a].timestamp)}

(* DELETE FROM conversations WHERE conversation_id = ? *)
(* variant: the condition of the DELETE inverted *)
DeleteWhereNot(table, c) == {r \in table : r.conversationId = c}

DeleteWhere(table, c) == {r \in table : r.conversationId # c}

(* SELECT COUNT(DISTINCT conversation_id) as count FROM conversations *)
(* variant: DISTINCT left out *)
CountDistinctConversationsAsRows(table) == Cardinality(table)

CountDistinctConversations(table) == Cardinality({r.conversationId : r \in table})

(* SELECT COUNT( * ) as count FROM conversations *)
(* variant: the first query issued a second time *)
CountRowsAsConversations(table) == Cardinality({r.conversationId : r \in table})

CountRows(table) == Cardinality(table)

----------------------------------------------------------------------------
(* DatabaseService *)

(* history bookkeeping: the statement of operation by took rows out of the *)
(* table after a successful getConversationStats                           *)
RemovedBy(by, before, after) ==
    IF lastStats.total # -1 /\ after # before
    THEN [lastStats EXCEPT !.removedBy = @ \cup {by}]
    ELSE lastStats

(* getConversationStats, lines 315-318: (result?.count as number) || 0 *)
CountOrZero(result) ==
    IF result = NoResult THEN 0 ELSE IF result.count = 0 THEN 0 ELSE result.count

StatsResult(conversationsResult, messagesResult) ==
    [totalConversations |-> CountOrZero(conversationsResult),
     totalMessages      |-> CountOrZero(messagesResult)]

(* getConversationStats, lines 319-322: the catch block *)
StatsFailed == [totalConversations |-> 0, totalMessages |-> 0]

(* variant: the catch block rethrows *)
StatsOutcomeRaising(ok) == IF ok THEN "returned" ELSE "raised"

StatsOutcome(ok) == "returned"

(* storeMessage, lines 193-223: the result of the call *)
(* variant: a failure of cleanupConversation reaches the catch of storeMessage *)
StoreOutcomeStrict(insertOk, cleanupOk) ==
    IF insertOk /\ cleanupOk THEN "returned" ELSE "raised"

StoreOutcome(insertOk, cleanupOk) == IF insertOk THEN "returned" ELSE "raised"

(* getConversationHistory, lines 260-263 *)
(* variant: the catch block rethrows *)
HistoryOutcomeRaising(ok) == IF ok THEN "returned" ELSE "raised"

HistoryOutcome(ok) == "returned"

(* deleteConversation, lines 274-277 *)
(* variant: the catch block swallows the failure *)
DeleteOutcomeSwallowing(ok) == "returned"

DeleteOutcome(ok) == IF ok THEN "returned" ELSE "raised"

(* storeMessage, lines 175-191: the message is built before the first await *)
StoreStart(p, c, role, content) ==
    /\ pc[p] \in {"idle", "done"}
    /\ nextId < MaxMsgs
    /\ nextId' = generateId(nextId)
    /\ pc' = [Settled EXCEPT ![p] = "sm_insert"]
    /\ loc' = [Cleared EXCEPT ![p] =
                 [op             |-> "store",
                  conversationId |-> c,
                  message        |-> [id             |-> generateId(nextId),
                                      conversationId |-> c,
                                      role           |-> role,
                                      content        |-> content,
                                      timestamp      |-> getCurrentTimestamp(now)],
                  insertOk       |-> FALSE,
                  cleanupOk      |-> FALSE,
                  log            |-> <<>>,
                  outcome        |-> "pending",
                  result         |-> NoResult]]
    /\ UNCHANGED <<now, rows, appended, faulty, retentionFailed, emptied, everStored, lastStats>>
    /\ UNCHANGED rlVars

(* storeMessage, lines 193-207 and the catch of lines 219-222 *)
StoreInsert(p) ==
    /\ pc[p] = "sm_insert"
    /\ LET l == loc[p]
           c == l.conversationId
       IN  \E ok \in BOOLEAN :
             IF ok
             THEN /\ rows' = InsertRow(rows, l.message)
                  /\ appended' = [appended EXCEPT ![c] = Append(@, l.message.id)]
                  /\ emptied' = [emptied EXCEPT ![c] = -1]
                  /\ everStored' = everStored \cup {c}
                  /\ pc' = [Settled EXCEPT ![p] = "sm_cleanup"]
                  /\ loc' = [Cleared EXCEPT ![p] = [l EXCEPT !.insertOk = TRUE]]
                  /\ UNCHANGED <<faulty, retentionFailed>>
             ELSE /\ faulty' = [faulty EXCEPT ![c] = TRUE]
                  /\ pc' = [Settled EXCEPT ![p] = "done"]
                  /\ loc' = [Cleared EXCEPT ![p] =
                               [l EXCEPT !.log = Append(@, "error"),
                                         !.outcome = StoreOutcome(FALSE, FALSE)]]
                  /\ UNCHANGED <<rows, appended, retentionFailed, emptied, everStored>>
    /\ UNCHANGED <<now, nextId, lastStats>>
    /\ UNCHANGED rlVars

(* storeMessage, lines 209-218, with cleanupConversation, lines 280-300 *)
StoreCleanup(p) ==
    /\ pc[p] = "sm_cleanup"
    /\ LET l == loc[p]
           c == l.conversationId
       IN  \E ok \in BOOLEAN :
             /\ IF ok
                THEN /\ \E kept \in TopByTimestampDesc(rows, c, maxHistoryLength) :
                          /\ rows' = DeleteNotIn(rows, c, kept)
                          /\ lastStats' = RemovedBy("retention", rows, DeleteNotIn(rows, c, kept))
                     /\ retentionFailed' = [retentionFailed EXCEPT ![c] = FALSE]
                     /\ UNCHANGED faulty
                ELSE /\ retentionFailed' = [retentionFailed EXCEPT ![c] = TRUE]
                     /\ faulty' = [faulty EXCEPT ![c] = TRUE]
                     /\ UNCHANGED <<rows, lastStats>>
             /\ pc' = [Settled EXCEPT ![p] = "done"]
             /\ loc' = [Cleared EXCEPT ![p] =
                          [l EXCEPT !.cleanupOk = ok,
                                    !.log = IF ok THEN Append(@, "debug")
                                            ELSE IF StoreOutcome(TRUE, ok) = "returned"
                                                 THEN <<"warn", "debug">>
                                                 ELSE <<"warn", "error">>,
                                    !.outcome = StoreOutcome(TRUE, ok),
                                    !.result = IF StoreOutcome(TRUE, ok) = "returned"
                                               THEN l.message ELSE NoResult]]
    /\ UNCHANGED <<now, nextId, appended, emptied, everStored>>
    /\ UNCHANGED rlVars

(* getConversationHistory, lines 225-264: one query *)
GetHistory(p, c) ==
    /\ pc[p] \in {"idle", "done"}
    /\ \E ok \in BOOLEAN :
         \E results \in (IF ok THEN SelectByTimestampAsc(rows, c, maxHistoryLength)
                               ELSE {<<>>}) :
           loc' = [Cleared EXCEPT ![p] =
                     [op             |-> "history",
                      conversationId |-> c,
                      failed         |-> ~ok,
                      emptied        |-> emptied[c],
                      log            |-> IF ok THEN <<"debug">> ELSE <<"error">>,
                      outcome        |-> HistoryOutcome(ok),
                      result         |-> IF HistoryOutcome(ok) = "returned"
                                         THEN results ELSE NoResult]]
    /\ pc' = [Settled EXCEPT ![p] = "done"]
    /\ UNCHANGED now
    /\ UNCHANGED rlVars
    /\ UNCHANGED dbVars

(* deleteConversation, lines 266-278: one statement *)
DeleteConversation(p, c) ==
    /\ pc[p] \in {"idle", "done"}
    /\ \E ok \in BOOLEAN :
         /\ IF ok
            THEN /\ rows' = DeleteWhere(rows, c)
                 /\ lastStats' = RemovedBy("delete", rows, DeleteWhere(rows, c))
                 /\ appended' = [appended EXCEPT ![c] = <<>>]
                 /\ emptied' = [emptied EXCEPT ![c] =
                                IF @ = -1 THEN Cardinality(RowsOf(rows, c)) ELSE @]
                 /\ retentionFailed' = [retentionFailed EXCEPT ![c] = FALSE]
            ELSE UNCHANGED <<rows, appended, emptied, retentionFailed, lastStats>>
         /\ loc' = [Cleared EXCEPT ![p] =
                      [op             |-> "delete",
                       conversationId |-> c,
                       failed         |-> ~ok,
                       emptied        |-> emptied[c],
                       log            |-> IF ok THEN <<"info">> ELSE <<"error">>,
                       outcome        |-> DeleteOutcome(ok)]]
    /\ pc' = [Settled EXCEPT ![p] = "done"]
    /\ UNCHANGED <<now, nextId, faulty, everStored>>
    /\ UNCHANGED rlVars

(* getConversationStats, lines 302-309: the first aggregate query *)
StatsConversations(p) ==
    /\ pc[p] \in {"idle", "done"}
    /\ \E ok \in BOOLEAN :
         IF ok
         THEN /\ pc' = [Settled EXCEPT ![p] = "gs_messages"]
              /\ loc' = [Cleared EXCEPT ![p] =
                           [op                  |-> "stats",
                            conversationsResult |-> [count |-> CountDistinctConversations(rows)],
                            messagesResult      |-> NoResult,
                            failed              |-> FALSE,
                            previous            |-> lastStats,
                            log                 |-> <<>>,
                            outcome             |-> "pending",
                            result              |-> NoResult]]
         ELSE /\ pc' = [Settled EXCEPT ![p] = "done"]
              /\ loc' = [Cleared EXCEPT ![p] =
                           [op                  |-> "stats",
                            conversationsResult |-> NoResult,
                            messagesResult      |-> NoResult,
                            failed              |-> TRUE,
                            previous            |-> lastStats,
                            log                 |-> <<"error">>,
                            outcome             |-> StatsOutcome(FALSE),
                            result              |-> IF StatsOutcome(FALSE) = "returned"
                                                    THEN StatsFailed ELSE NoResult]]
    /\ UNCHANGED now
    /\ UNCHANGED rlVars
    /\ UNCHANGED dbVars

(* getConversationStats, lines 311-322: the second aggregate query and the result *)
StatsMessages(p) ==
    /\ pc[p] = "gs_messages"
    /\ LET l == loc[p]
       IN  \E ok \in BOOLEAN :
             IF ok
             THEN LET messagesResult == [count |-> CountRows(rows)]
                      result == StatsResult(l.conversationsResult, messagesResult)
                  IN  /\ loc' = [Cleared EXCEPT ![p] =
                                   [l EXCEPT !.messagesResult = messagesResult,
                                             !.previous = lastStats,
                                             !.outcome = StatsOutcome(TRUE),
                                             !.result = result]]
                      /\ lastStats' = [total |-> result.totalMessages, removedBy |-> {}]
             ELSE /\ loc' = [Cleared EXCEPT ![p] =
                               [l EXCEPT !.failed = TRUE,
                                         !.previous = lastStats,
                                         !.log = <<"error">>,
                                         !.outcome = StatsOutcome(FALSE),
                                         !.result = IF StatsOutcome(FALSE) = "returned"
                                                    THEN StatsFailed ELSE NoResult]]
                  /\ UNCHANGED lastStats
    /\ pc' = [Settled EXCEPT ![p] = "done"]
    /\ UNCHANGED <<now, rows, nextId, appended, faulty, retentionFailed, emptied, everStored>>
    /\ UNCHANGED rlVars

----------------------------------------------------------------------------
(* helpers.ts: request validation; a string is the sequence of its characters *)

Undefined == [type |-> "undefined", value |-> <<>>]
Str(chars) == [type |-> "string", value |-> chars]
Num == [type |-> "number", value |-> <<>>]
Obj == [type |-> "object", value |-> <<>>]

RECURSIVE TrimStart(_)
TrimStart(s) == IF s # <<>> /\ Head(s) = " " THEN TrimStart(Tail(s)) ELSE s

RECURSIVE TrimEnd(_)
TrimEnd(s) ==
    IF s # <<>> /\ s[Len(s)] = " " THEN TrimEnd(SubSeq(s, 1, Len(s) - 1)) ELSE s

(* String.prototype.trim *)
Trim(s) == TrimEnd(TrimStart(s))

(* input.replace(/[...]/g, '') *)
RemoveChars(s, chars) == SelectSeq(s, LAMBDA ch : ch \notin chars)

sanitizeString(input) ==
    LET stripped == Trim(RemoveChars(RemoveChars(input, {"<", ">"}), {"'", "\""}))
    IN  SubSeq(stripped, 1, Min(Len(stripped), MaxInputLength))

(* variant: the message is not checked *)
validateAgentRequestLax(body) ==
    [isValid |-> TRUE, errors |-> <<>>]

validateAgentRequest(body) ==
    IF ~body.isObject
    THEN [isValid |-> FALSE, errors |-> <<"body">>]
    ELSE LET errors ==
                (IF body.message.type # "string" \/ Len(Trim(body.message.value)) = 0
                 THEN <<"message">> ELSE <<>>)
             \o (IF body.conversationId.type \notin {"undefined", "string"}
                 THEN <<"conversationId">> ELSE <<>>)
             \o (IF body.userId.type \notin {"undefined", "string"}
                 THEN <<"userId">> ELSE <<>>)
             \o (IF body.metadata.type \notin {"undefined", "object"}
                 THEN <<"metadata">> ELSE <<>>)
         IN  [isValid |-> Len(errors) = 0, errors |-> errors]

createCorsHeaders ==
    {<<"Access-Control-Allow-Origin", "*">>,
     <<"Access-Control-Allow-Methods", "GET, POST, OPTIONS">>,
     <<"Access-Control-Allow-Headers", "Content-Type, Authorization">>,
     <<"Access-Control-Max-Age", "86400">>}

ContentTypeJson == {<<"Content-Type", "application/json">>}

(* new Response(body, {status, headers}); remaining and reset are the values *)
(* of X-RateLimit-Remaining and X-RateLimit-Reset, -1 when not set           *)
Response(status, headers, remaining, reset) ==
    [status |-> status, headers |-> headers, remaining |-> remaining, reset |-> reset]

(* index.ts, lines 37-39: response.headers.set(key, value) for every CORS header *)
(* variant: the headers are not added *)
WithCorsHeadersMissing(response) == response

WithCorsHeaders(response) ==
    [response EXCEPT !.headers =
        {h \in @ : h[1] \notin {c[1] : c \in createCorsHeaders}} \cup createCorsHeaders]

----------------------------------------------------------------------------
(* index.ts, handlers/agent.ts, handlers/utility.ts: the fetch handler.    *)
(* The requests of the model; identifiers stand for the strings            *)
(* user:<userId> and ip:<address>, which never coincide.                   *)

Hi == <<"h", "i">>
Reply == <<"o", "k">>
SystemPrompt == <<"system">>

Body(message, conversationId, userId, metadata) ==
    [isObject |-> TRUE, message |-> message, conversationId |-> conversationId,
     userId |-> userId, metadata |-> metadata]

NotAnObject ==
    [isObject |-> FALSE, message |-> Undefined, conversationId |-> Undefined,
     userId |-> Undefined, metadata |-> Undefined]

(* bodies that pass validateAgentRequest: every field given, and one without *)
(* conversationId and metadata                                              *)
ValidBodies ==
    {Body(Str(Hi), Str(<<"c1">>), Str(<<"u1">>), Obj),
     Body(Str(<<"<">>), Undefined, Str(<<"u1">>), Undefined)}

InvalidBodies ==
    {Body(Str(<<" ">>), Str(<<"c1">>), Str(<<"u1">>), Undefined),
     Body(Str(<<>>), Str(<<"c1">>), Str(<<"u1">>), Undefined),
     Body(Undefined, Undefined, Undefined, Undefined),
     Body(Str(Hi), Str(<<"c1">>), Num, Undefined),
     NotAnObject}

Request(method, path, query, json, body) ==
    [method |-> method, path |-> path, query |-> query, ip |-> "u2",
     json |-> json, body |-> body, key |-> TRUE]

(* the same request to a worker whose env has no CONTEXT7_API_KEY *)
WithoutKey(r) == [r EXCEPT !.key = FALSE]

(* POST /agent with each body, and with a body that is not JSON *)
AgentRequests ==
    {Request("POST", "/agent", <<>>, TRUE, b) : b \in ValidBodies \cup InvalidBodies}
    \cup {Request("POST", "/agent", <<>>, FALSE, NotAnObject)}

ValidAgentRequest ==
    Request("POST", "/agent", <<>>, TRUE, Body(Str(Hi), Str(<<"c1">>), Str(<<"u1">>), Obj))

(* a request for each branch of the router, and one POST /agent of each kind *)
FetchRequests ==
    {Request("OPTIONS", "/agent", <<>>, FALSE, NotAnObject),
     Request("GET", "/health", <<>>, FALSE, NotAnObject),
     Request("GET", "/stats", <<>>, FALSE, NotAnObject),
     Request("GET", "/rate-limit", <<>>, FALSE, NotAnObject),
     Request("GET", "/rate-limit", <<"u1">>, FALSE, NotAnObject),
     Request("GET", "/agent", <<>>, FALSE, NotAnObject),
     Request("POST", "/health", <<>>, FALSE, NotAnObject),
     Request("GET", "/other", <<>>, FALSE, NotAnObject),
     ValidAgentRequest,
     Request("POST", "/agent", <<>>, TRUE, Body(Undefined, Undefined, Undefined, Undefined)),
     WithoutKey(ValidAgentRequest),
     WithoutKey(Request("GET", "/health", <<>>, FALSE, NotAnObject))}

(* the conversation ids generateId() can yield for a request without one *)
GeneratedConversationIds == {"c2"}

(* index.ts, lines 29-65: the handler a request is routed to *)
Route(r) ==
    IF r.method = "OPTIONS" THEN "handleOptions"
    ELSE IF r.path = "/agent" /\ r.method = "POST" THEN "handleAgentRequest"
    ELSE IF r.path = "/health" /\ r.method = "GET" THEN "handleHealthCheck"
    ELSE IF r.path = "/stats" /\ r.method = "GET" THEN "handleStats"
    ELSE IF r.path = "/rate-limit" /\ r.method = "GET" THEN "handleRateLimitStatus"
    ELSE IF r.path = "/agent" /\ r.method # "POST" THEN "handleMethodNotAllowed"
    ELSE IF r.path \in {"/health", "/stats", "/rate-limit"} /\ r.method # "GET"
         THEN "handleMethodNotAllowed"
    ELSE "handleNotFound"

(* agent.ts, lines 182-193 *)
getClientIdentifier(r, userId) ==
    IF userId.type = "string" /\ userId.value # <<>> THEN userId.value[1] ELSE r.ip

(* agent.ts, line 83: agentRequest.conversationId || generateId() *)
ConversationChoice(r) ==
    IF r.body.conversationId.type = "string" /\ r.body.conversationId.value # <<>>
    THEN {r.body.conversationId.value[1]}
    ELSE {c \in GeneratedConversationIds : c \notin everStored}

LastN(seq, n) == SubSeq(seq, Max(1, Len(seq) - n + 1), Len(seq))

(* ai.ts (part_004), lines 48-83 *)
buildMessagesArray(currentMessage, conversationHistory, context) ==
    <<[role |-> "system", content |-> SystemPrompt \o context]>>
    \o [k \in 1..Len(conversationHistory) |->
          [role    |-> IF conversationHistory[k].role = "user" THEN "user" ELSE "assistant",
           content |-> conversationHistory[k].content]]
    \o <<[role |-> "user", content |-> currentMessage]>>

(* a step of the handler that calls no store: the call that finished before *)
(* it has handed over its result                                            *)
Settle ==
    /\ pc' = Settled
    /\ loc' = Cleared
    /\ UNCHANGED <<now, kv, nCalls, served, admitted, dirty,
                   rows, nextId, appended, faulty, retentionFailed, emptied, everStored, lastStats>>

NewRequest(r, step) ==
    [step                |-> step,
     request             |-> r,
     kvAtStart           |-> kv,
     rowsAtStart         |-> rows,
     events              |-> <<>>,
     failures            |-> {},
     message             |-> <<>>,
     clientId            |-> "",
     conversationId      |-> "",
     rateLimitInfo       |-> NoResult,
     conversationHistory |-> <<>>,
     relevantContext     |-> <<>>,
     sent                |-> <<>>,
     aiResponse          |-> <<>>,
     response            |-> NoResult]

Event(r, name, what) == [r EXCEPT !.events = Append(@, <<name, what>>)]

(* a store operation of the named step failed *)
Failure(r, failed, name) == [r EXCEPT !.failures = IF failed THEN @ \cup {name} ELSE @]

Respond(r, response) == [r EXCEPT !.step = "responded", !.response = response]

(* agent.ts, lines 169-179, through index.ts, lines 35-40 *)
AgentError(r) == Respond(r, WithCorsHeaders(Response(500, ContentTypeJson, -1, -1)))

(* index.ts, lines 7-31, 43-45, 55-82 and utility.ts: the requests answered *)
(* without a store operation; the constructor of Context7Service (line 25)  *)
(* throws when env.CONTEXT7_API_KEY is not set                              *)
FetchDirect(r) ==
    /\ req.step \in {"none", "responded"}
    /\ ~r.key \/ Route(r) \in {"handleOptions", "handleHealthCheck",
                                     "handleMethodNotAllowed", "handleNotFound"}
                   \/ (Route(r) = "handleRateLimitStatus" /\ r.query = <<>>)
    /\ req' = Respond(NewRequest(r, "responded"),
          IF ~r.key
          THEN Response(500, ContentTypeJson \cup createCorsHeaders, -1, -1)
          ELSE IF Route(r) = "handleOptions"
          THEN Response(204, createCorsHeaders, -1, -1)
          ELSE IF Route(r) = "handleHealthCheck"
          THEN Response(200, ContentTypeJson \cup createCorsHeaders, -1, -1)
          ELSE IF Route(r) = "handleRateLimitStatus"
          THEN Response(400, ContentTypeJson \cup createCorsHeaders, -1, -1)
          ELSE IF Route(r) = "handleMethodNotAllowed"
          THEN Response(405, ContentTypeJson \cup createCorsHeaders
                             \cup {<<"Allow", IF r.path = "/agent" THEN "POST, OPTIONS"
                                                                   ELSE "GET, OPTIONS">>},
                        -1, -1)
          ELSE Response(404, ContentTypeJson \cup createCorsHeaders, -1, -1))
    /\ Settle

(* utility.ts, lines 96-98: GET /stats, the first query of getConversationStats *)
FetchStats(r) ==
    /\ req.step \in {"none", "responded"}
    /\ r.key
    /\ Route(r) = "handleStats"
    /\ StatsConversations(Caller)
    /\ req' = IF pc'[Caller] = "done"
              THEN Respond(NewRequest(r, "stats"),
                           Response(200, ContentTypeJson \cup createCorsHeaders, -1, -1))
              ELSE NewRequest(r, "stats")

(* utility.ts, lines 98-112 *)
FetchStatsMessages ==
    /\ req.step = "stats"
    /\ StatsMessages(Caller)
    /\ req' = Respond(req, Response(200, ContentTypeJson \cup createCorsHeaders, -1, -1))

(* utility.ts, lines 59-74: GET /rate-limit?id= *)
FetchRateLimit(r) ==
    /\ req.step \in {"none", "responded"}
    /\ r.key
    /\ Route(r) = "handleRateLimitStatus"
    /\ r.query # <<>>
    /\ StatusStart(Caller, r.query[1])
    /\ req' = NewRequest(r, "status")

(* utility.ts, lines 74-82 *)
FetchRateLimitGet ==
    /\ req.step = "status"
    /\ StatusGet(Caller)
    /\ req' = Respond(req, Response(200, ContentTypeJson \cup createCorsHeaders, -1, -1))

(* index.ts, lines 34-35 and agent.ts, lines 28-50: a POST /agent whose body *)
(* is not JSON (request.json() throws into the catch of lines 169-179) or    *)
(* fails validation                                                         *)
AgentReject(r) ==
    /\ req.step \in {"none", "responded"}
    /\ r.key
    /\ Route(r) = "handleAgentRequest"
    /\ ~r.json \/ ~validateAgentRequest(r.body).isValid
    /\ req' = IF ~r.json
              THEN AgentError(NewRequest(r, "json"))
              ELSE Respond(NewRequest(r, "json"),
                           WithCorsHeaders(Response(400, ContentTypeJson, -1, -1)))
    /\ Settle

(* index.ts, lines 34-35 and agent.ts, lines 28-61: a POST /agent with a valid *)
(* body, up to the call of checkRateLimit                                     *)
AgentCheck(r) ==
    /\ req.step \in {"none", "responded"}
    /\ r.key
    /\ Route(r) = "handleAgentRequest"
    /\ r.json
    /\ validateAgentRequest(r.body).isValid
    /\ LET clientId == getClientIdentifier(r, r.body.userId)
       IN  /\ CheckStart(Caller, clientId)
           /\ req' = Event([NewRequest(r, "check") EXCEPT
                              !.message = sanitizeString(r.body.message.value),
                              !.clientId = clientId],
                           "check", "start")

(* variant: a blocked request is let through *)
AfterCheckAdmitting(r, info, c) ==
    Event([r EXCEPT !.step = "init_table",
                    !.rateLimitInfo = info,
                    !.conversationId = IF c = "" THEN "c1" ELSE c],
          "init", "start")

(* agent.ts, lines 61-86: the result of checkRateLimit *)
AfterCheck(r, info, c) ==
    IF info.blocked
    THEN Respond([r EXCEPT !.rateLimitInfo = info],
                 WithCorsHeaders(Response(429, ContentTypeJson, 0, info.resetTime)))
    ELSE Event([r EXCEPT !.step = "init_table",
                         !.rateLimitInfo = info,
                         !.conversationId = c],
               "init", "start")

AgentCheckStep(step) ==
    /\ req.step = "check"
    /\ step
    /\ IF pc'[Caller] # "done"
       THEN req' = req
       ELSE LET r == Failure(Event(req, "check", "end"), loc'[Caller].failed, "check")
            IN  IF loc'[Caller].result.blocked
                THEN req' = AfterCheck(r, loc'[Caller].result, "")
                ELSE \E c \in ConversationChoice(req.request) :
                       req' = AfterCheck(r, loc'[Caller].result, c)

AgentCheckGet == AgentCheckStep(CheckGet(Caller))

AgentCheckPut == AgentCheckStep(CheckPut(Caller))

(* agent.ts, line 86 with initializeDatabase, part_002 lines 145-157: CREATE TABLE *)
AgentInitTable ==
    /\ req.step = "init_table"
    /\ \E ok \in BOOLEAN :
         req' = IF ok THEN [req EXCEPT !.step = "init_index"]
                      ELSE AgentError(Failure(Event(req, "init", "failed"), TRUE, "init"))
    /\ Settle

(* initializeDatabase, part_002 lines 159-172: CREATE INDEX; then agent.ts, *)
(* lines 88-94: the call of storeMessage for the user message               *)
AgentInitIndex ==
    /\ req.step = "init_index"
    /\ \E ok \in BOOLEAN :
         IF ok
         THEN /\ StoreStart(Caller, req.conversationId, "user", req.message)
              /\ req' = Event(Event([req EXCEPT !.step = "store_user"], "init", "end"),
                              "append_user", "start")
         ELSE /\ req' = AgentError(Failure(Event(req, "init", "failed"), TRUE, "init"))
              /\ Settle

AppendName(r) == IF r.step = "store_user" THEN "append_user" ELSE "append_assistant"

(* storeMessage raising: agent.ts, lines 169-179 *)
AgentStoreInsert ==
    /\ req.step \in {"store_user", "store_assistant"}
    /\ StoreInsert(Caller)
    /\ req' = IF pc'[Caller] = "done"
              THEN AgentError(Failure(Event(req, AppendName(req), "failed"), TRUE, AppendName(req)))
              ELSE req

(* agent.ts, lines 94-97 and 125-129: storeMessage returned *)
AgentStoreCleanup ==
    /\ req.step \in {"store_user", "store_assistant"}
    /\ StoreCleanup(Caller)
    /\ LET r == Failure(req, ~loc'[Caller].cleanupOk, "retention")
       IN  req' = IF loc'[Caller].outcome # "returned"
                  THEN AgentError(Event(r, AppendName(req), "failed"))
                  ELSE IF req.step = "store_user"
                  THEN Event(Event([r EXCEPT !.step = "history"], "append_user", "end"),
                             "history", "start")
                  ELSE Event(Event([r EXCEPT !.step = "store_context"],
                                   "append_assistant", "end"),
                             "store_context", "start")

(* agent.ts, lines 97-102 *)
AgentHistory ==
    /\ req.step = "history"
    /\ GetHistory(Caller, req.conversationId)
    /\ LET r == Failure(req, loc'[Caller].failed, "history")
       IN  req' = IF loc'[Caller].outcome # "returned"
                  THEN AgentError(Event(r, "history", "failed"))
                  ELSE Event(Event([r EXCEPT !.step = "keywords",
                                            !.conversationHistory = loc'[Caller].result],
                                   "history", "end"),
                             "keywords", "start")

(* agent.ts, lines 102-104 with extractKeywords, part_004 lines 118-152: the *)
(* model call failed, or yielded no keyword, or yielded some                 *)
AgentKeywords ==
    /\ req.step = "keywords"
    /\ \E outcome \in {"failed", "none", "some"} :
         req' = IF outcome = "some"
                THEN Event(Event([req EXCEPT !.step = "search"], "keywords", "end"),
                           "search", "start")
                ELSE Event(Event([req EXCEPT !.step = "generate"],
                                 "keywords", IF outcome = "failed" THEN "failed" ELSE "end"),
                           "model", "start")
    /\ Settle

(* agent.ts, lines 104-115 with callMCP, context7.ts lines 15-59 *)
SearchOutcomes == {"threw", "not_ok", "error", "no_result", "no_content", "content"}

(* variant: a failed search ends the request *)
AgentSearchAborting ==
    /\ req.step = "search"
    /\ \E outcome \in SearchOutcomes :
         req' = IF outcome \in {"threw", "not_ok", "error"}
                THEN AgentError(Event(req, "search", "failed"))
                ELSE Event(Event([req EXCEPT !.step = "generate",
                                            !.relevantContext =
                                                IF outcome = "content" THEN <<"ctx">> ELSE <<>>],
                                 "search", "end"),
                           "model", "start")
    /\ Settle

AgentSearch ==
    /\ req.step = "search"
    /\ \E outcome \in SearchOutcomes :
         req' = Event(Event([req EXCEPT !.step = "generate",
                                       !.relevantContext =
                                           IF outcome = "content" THEN <<"ctx">> ELSE <<>>],
                            "search",
                            IF outcome \in {"threw", "not_ok", "error"} THEN "failed" ELSE "end"),
                      "model", "start")
    /\ Settle

(* variant: the assistant message is stored whatever the model call yields *)
AgentGenerateStoringAlways ==
    /\ req.step = "generate"
    /\ \E outcome \in {"threw", "empty", "reply"} :
         /\ StoreStart(Caller, req.conversationId, "assistant", Reply)
         /\ req' = Event(Event([req EXCEPT !.step = "store_assistant", !.aiResponse = Reply],
                                "model", IF outcome = "reply" THEN "end" ELSE "failed"),
                          "append_assistant", "start")

(* agent.ts, lines 117-125 with generateResponse, part_004 lines 11-46 *)
AgentGenerate ==
    /\ req.step = "generate"
    /\ LET sent == buildMessagesArray(req.message,
                                      LastN(req.conversationHistory, HistoryWindow),
                                      req.relevantContext)
       IN  \E outcome \in {"threw", "empty", "reply"} :
             IF outcome = "reply"
             THEN /\ StoreStart(Caller, req.conversationId, "assistant", Reply)
                  /\ req' = Event(Event([req EXCEPT !.step = "store_assistant",
                                                    !.sent = sent,
                                                    !.aiResponse = Reply],
                                         "model", "end"),
                                   "append_assistant", "start")
             ELSE /\ req' = AgentError(Event([req EXCEPT !.sent = sent], "model", "failed"))
                  /\ Settle

(* agent.ts, lines 127-168 *)
AgentStoreContext ==
    /\ req.step = "store_context"
    /\ \E ok \in BOOLEAN :
         req' = Respond(Event(req, "store_context", IF ok THEN "end" ELSE "failed"),
                        WithCorsHeaders(Response(200,
                                                 ContentTypeJson \cup {<<"X-Request-ID", "id">>},
                                                 req.rateLimitInfo.remaining,
                                                 req.rateLimitInfo.resetTime)))
    /\ Settle

(* the clock moves to a later instant *)
Tick(t) ==
    /\ t > now
    /\ now' = t
    /\ pc' = Settled
    /\ loc' = Cleared
    /\ UNCHANGED rlVars
    /\ UNCHANGED dbVars

----------------------------------------------------------------------------

Init ==
    /\ now = 0
    /\ kv = [k \in Keys |-> NoEntry]
    /\ pc = [p \in Procs |-> "idle"]
    /\ loc = [p \in Procs |-> IdleLoc]
    /\ nCalls = 0
    /\ served = [i \in Identifiers |-> [w \in Windows |-> 0]]
    /\ admitted = [i \in Identifiers |-> [w \in Windows |-> 0]]
    /\ dirty = [i \in Identifiers |-> [w \in Windows |-> FALSE]]
    /\ rows = {}
    /\ nextId = 0
    /\ appended = [c \in ConversationIds |-> <<>>]
    /\ faulty = [c \in ConversationIds |-> FALSE]
    /\ retentionFailed = [c \in ConversationIds |-> FALSE]
    /\ emptied = [c \in ConversationIds |-> -1]
    /\ everStored = {}
    /\ lastStats = [total |-> -1, removedBy |-> {}]
    /\ req = NoRequest

RLNext ==
    \/ \E p \in Procs, i \in Identifiers : CheckStart(p, i) /\ UNCHANGED req
    \/ \E p \in Procs : CheckGet(p) /\ UNCHANGED req
    \/ \E p \in Procs : CheckPut(p) /\ UNCHANGED req
    \/ \E p \in Procs, i \in Identifiers : StatusStart(p, i) /\ UNCHANGED req
    \/ \E p \in Procs : StatusGet(p) /\ UNCHANGED req
    \/ \E t \in RLTimes : Tick(t) /\ UNCHANGED req

(* calls of every execution context interleave at their awaits *)
RLSpec == Init /\ [][RLNext]_vars

RLSeqNext ==
    \/ \E i \in Identifiers : CheckStart(Caller, i) /\ UNCHANGED req
    \/ CheckGet(Caller) /\ UNCHANGED req
    \/ CheckPut(Caller) /\ UNCHANGED req
    \/ \E i \in Identifiers : StatusStart(Caller, i) /\ UNCHANGED req
    \/ StatusGet(Caller) /\ UNCHANGED req
    \/ \E t \in RLTimes : Tick(t) /\ UNCHANGED req

(* one caller issuing its calls one after another *)
RLSeqSpec == Init /\ [][RLSeqNext]_vars

DBNext ==
    \/ \E p \in Procs, c \in SharedConversation, in \in Inputs : StoreStart(p, c, in[1], in[2]) /\ UNCHANGED req
    \/ \E p \in Procs : StoreInsert(p) /\ UNCHANGED req
    \/ \E p \in Procs : StoreCleanup(p) /\ UNCHANGED req
    \/ \E p \in Procs, c \in SharedConversation : GetHistory(p, c) /\ UNCHANGED req
    \/ \E p \in Procs, c \in SharedConversation : DeleteConversation(p, c) /\ UNCHANGED req
    \/ \E t \in SharedTimes : Tick(t) /\ UNCHANGED req

(* concurrent callers working on the same conversation *)
DBSpec == Init /\ [][DBNext]_vars

DBSeqNext ==
    \/ \E c \in ConversationIds, in \in Inputs : StoreStart(Caller, c, in[1], in[2]) /\ UNCHANGED req
    \/ StoreInsert(Caller) /\ UNCHANGED req
    \/ StoreCleanup(Caller) /\ UNCHANGED req
    \/ \E c \in ConversationIds : GetHistory(Caller, c) /\ UNCHANGED req
    \/ \E c \in ConversationIds : DeleteConversation(Caller, c) /\ UNCHANGED req
    \/ \E t \in DBTimes : Tick(t) /\ UNCHANGED req

DBSeqSpec == Init /\ [][DBSeqNext]_vars

StatsNext ==
    \/ \E p \in Procs, c \in SharedConversation, in \in Inputs : StoreStart(p, c, in[1], in[2]) /\ UNCHANGED req
    \/ \E p \in Procs : StoreInsert(p) /\ UNCHANGED req
    \/ \E p \in Procs : StoreCleanup(p) /\ UNCHANGED req
    \/ \E p \in Procs, c \in SharedConversation : DeleteConversation(p, c) /\ UNCHANGED req
    \/ \E p \in Procs : StatsConversations(p) /\ UNCHANGED req
    \/ \E p \in Procs : StatsMessages(p) /\ UNCHANGED req
    \/ \E t \in SharedTimes : Tick(t) /\ UNCHANGED req

(* getConversationStats running next to the appends and deletions of other callers *)
StatsSpec == Init /\ [][StatsNext]_vars

StatsSeqNext ==
    \/ \E c \in ConversationIds, in \in Inputs : StoreStart(Caller, c, in[1], in[2]) /\ UNCHANGED req
    \/ StoreInsert(Caller) /\ UNCHANGED req
    \/ StoreCleanup(Caller) /\ UNCHANGED req
    \/ \E c \in ConversationIds : DeleteConversation(Caller, c) /\ UNCHANGED req
    \/ StatsConversations(Caller) /\ UNCHANGED req
    \/ StatsMessages(Caller) /\ UNCHANGED req
    \/ \E t \in SharedTimes : Tick(t) /\ UNCHANGED req

(* one caller: appends, deletions and getConversationStats one after another *)
StatsSeqSpec == Init /\ [][StatsSeqNext]_vars

AgentNext ==
    \/ \E r \in AgentRequests : AgentReject(r)
    \/ \E r \in AgentRequests : AgentCheck(r)
    \/ AgentCheckGet
    \/ AgentCheckPut
    \/ AgentInitTable
    \/ AgentInitIndex
    \/ AgentStoreInsert
    \/ AgentStoreCleanup
    \/ AgentHistory
    \/ AgentKeywords
    \/ AgentSearch
    \/ AgentGenerate
    \/ AgentStoreContext

(* the worker handling one POST /agent after another *)
AgentSpec == Init /\ [][AgentNext]_vars

FetchNext ==
    \/ \E r \in FetchRequests : FetchDirect(r)
    \/ \E r \in FetchRequests : FetchStats(r)
    \/ FetchStatsMessages
    \/ \E r \in FetchRequests : FetchRateLimit(r)
    \/ FetchRateLimitGet
    \/ \E r \in FetchRequests : AgentReject(r)
    \/ \E r \in FetchRequests : AgentCheck(r)
    \/ AgentCheckGet
    \/ AgentCheckPut
    \/ AgentInitTable
    \/ AgentInitIndex
    \/ AgentStoreInsert
    \/ AgentStoreCleanup
    \/ AgentHistory
    \/ AgentKeywords
    \/ AgentSearch
    \/ AgentGenerate
    \/ AgentStoreContext

(* the worker handling one request after another, on every route *)
FetchSpec == Init /\ [][FetchNext]_vars

----------------------------------------------------------------------------
(* Claims about the rate limiter *)

Stored(i) == JSONparse(kv[KeyOf(i)].value)

CheckDone(p) == pc[p] = "done" /\ loc[p].op = "check"

(* C1: one caller, no storage failure, every store operation inside the    *)
(* window: the k-th call (k = 0, 1, ...) for an identifier in a window      *)
(* returns blocked = FALSE and remaining = limit - 1 - k while k < limit,   *)
(* and blocked = TRUE, remaining = 0 from k = limit on; so at most limit    *)
(* calls are admitted per identifier and window.                            *)
C1_SequentialAdmission ==
    /\ \A i \in Identifiers, w \in Windows :
         ~dirty[i][w] => admitted[i][w] <= limitPerMinute
    /\ CheckDone(Caller) =>
         LET l == loc[Caller]
             k == served[l.identifier][l.windowStart] - 1
         IN  ~dirty[l.identifier][l.windowStart] =>
               /\ l.result.blocked = (k >= limitPerMinute)
               /\ l.result.remaining = Max(0, limitPerMinute - 1 - k)

C1_Witness ==
    /\ CheckDone(Caller)
    /\ ~dirty[loc[Caller].identifier][loc[Caller].windowStart]
    /\ served[loc[Caller].identifier][loc[Caller].windowStart] = limitPerMinute + 1
    /\ admitted[loc[Caller].identifier][loc[Caller].windowStart] = limitPerMinute
    /\ loc[Caller].result.blocked

(* C2: a checkRateLimit call whose get finds count >= limit returns         *)
(* blocked = TRUE, remaining = 0, resetTime = windowEnd at that step, never *)
(* reaches the put, and leaves the whole key-value store as it was.         *)
C2_BlockedNoWrite ==
    [][\A p \in Procs :
         (/\ pc[p] = "rl_get"
          /\ pc'[p] # "rl_get"
          /\ ~loc'[p].failed
          /\ loc'[p].count >= limitPerMinute)
         => /\ pc'[p] = "done"
            /\ loc'[p].outcome = "returned"
            /\ loc'[p].result =
                 [remaining |-> 0, resetTime |-> loc[p].windowEnd, blocked |-> TRUE]
            /\ loc'[p].puts = 0
            /\ kv' = kv]_vars

C2_Witness ==
    \E p \in Procs :
        /\ CheckDone(p)
        /\ ~loc[p].failed
        /\ loc[p].count >= limitPerMinute
        /\ loc[p].result.blocked

(* C3: a call that finds a counter tagged with an earlier window stored      *)
(* (whatever its count) returns blocked = FALSE, remaining = limit - 1 and   *)
(* leaves count = 1 tagged with its own windowStart in the store.           *)
C3_WindowReset ==
    CheckDone(Caller) =>
        LET l == loc[Caller]
        IN  (/\ ~l.failed
             /\ l.current # Null
             /\ JSONparse(l.current).window < l.windowStart)
            => /\ l.result = [remaining |-> limitPerMinute - 1,
                              resetTime |-> l.windowEnd,
                              blocked   |-> FALSE]
               /\ kv[l.key] # NoEntry
               /\ Stored(l.identifier) = [count |-> 1, window |-> l.windowStart]

C3_Witness ==
    /\ CheckDone(Caller)
    /\ ~loc[Caller].failed
    /\ loc[Caller].current # Null
    /\ JSONparse(loc[Caller].current).window < loc[Caller].windowStart
    /\ JSONparse(loc[Caller].current).count = limitPerMinute
    /\ Stored(loc[Caller].identifier).count = 1

(* C4: a checkRateLimit call whose get or put failed returns (it does not   *)
(* raise) blocked = FALSE, remaining = limit - 1, resetTime = windowEnd.    *)
C4_FailOpen ==
    \A p \in Procs :
        (CheckDone(p) /\ loc[p].failed)
        => /\ loc[p].outcome = "returned"
           /\ loc[p].result = [remaining |-> limitPerMinute - 1,
                               resetTime |-> loc[p].windowEnd,
                               blocked   |-> FALSE]

C4_Witness ==
    \E p \in Procs :
        /\ CheckDone(p)
        /\ loc[p].failed
        /\ kv[loc[p].key] # NoEntry
        /\ now < kv[loc[p].key].expires
        /\ Stored(loc[p].identifier) =
             [count |-> limitPerMinute, window |-> loc[p].windowStart]

(* C5: the count stored for a window never exceeds the number of calls      *)
(* admitted in it, and it can stay behind: a put writes the count its call  *)
(* read plus one, so calls that read the same count are all admitted while  *)
(* the stored count grows by one, and more than limit calls get admitted.   *)
C5_StoredCountLags ==
    \A i \in Identifiers :
        kv[KeyOf(i)] # NoEntry =>
            Stored(i).count <= admitted[i][Stored(i).window]

C5_Witness ==
    \E i \in Identifiers, w \in Windows :
        /\ ~dirty[i][w]
        /\ admitted[i][w] > limitPerMinute
        /\ kv[KeyOf(i)] # NoEntry
        /\ Stored(i) = [count |-> limitPerMinute, window |-> w]

----------------------------------------------------------------------------
(* Claims about the conversation store *)

Pending(c) == {p \in Procs : pc[p] = "sm_cleanup" /\ loc[p].conversationId = c}

Stable == \A p \in Procs : pc[p] \in {"idle", "done"}

Ids(s) == [a \in 1..Len(s) |-> s[a].id]

LastOf(s, n) == SubSeq(s, Len(s) - n + 1, Len(s))

(* C6, as claimed: whenever no call is in progress, no conversation holds   *)
(* more than maxHistoryLength rows, also after a failed retention step.     *)
C6_CapAfterEveryCall ==
    Stable => \A c \in ConversationIds :
                 Cardinality(RowsOf(rows, c)) <= maxHistoryLength

(* C6, amended: unless the last retention step of the conversation failed,  *)
(* a conversation holds at most maxHistoryLength rows plus one row per      *)
(* append that has inserted and not yet run its retention step.             *)
C6_CapUnlessRetentionFailed ==
    \A c \in ConversationIds :
        ~retentionFailed[c] =>
            Cardinality(RowsOf(rows, c)) <= maxHistoryLength + Cardinality(Pending(c))

C6_Witness ==
    \E c \in ConversationIds :
        /\ Len(appended[c]) > maxHistoryLength
        /\ ~retentionFailed[c]
        /\ Pending(c) = {}
        /\ Cardinality(RowsOf(rows, c)) = maxHistoryLength

(* C7: one caller, every store operation succeeding: once more than         *)
(* maxHistoryLength messages were appended to a conversation, getHistory    *)
(* returns exactly the maxHistoryLength last appended, in append order.     *)
C7_LastAppendedRetrievable ==
    (pc[Caller] = "done" /\ loc[Caller].op = "history") =>
        LET l == loc[Caller]
            c == l.conversationId
        IN  (/\ ~l.failed
             /\ ~faulty[c]
             /\ Len(appended[c]) > maxHistoryLength)
            => Ids(l.result) = LastOf(appended[c], maxHistoryLength)

(* C8: an append whose insert succeeded and whose retention step failed     *)
(* returns the new message and its row is stored; an append whose insert    *)
(* failed raises and no row with its id is stored.                          *)
C8_RetentionFailsSoft ==
    \A p \in Procs :
        (pc[p] = "done" /\ loc[p].op = "store") =>
            /\ (loc[p].insertOk /\ ~loc[p].cleanupOk) =>
                 /\ loc[p].outcome = "returned"
                 /\ loc[p].result = loc[p].message
                 /\ loc[p].message \in rows
            /\ ~loc[p].insertOk =>
                 /\ loc[p].outcome = "raised"
                 /\ \A r \in rows : r.id # loc[p].message.id

C8_Witness ==
    \E p \in Procs :
        /\ pc[p] = "done" /\ loc[p].op = "store"
        /\ loc[p].insertOk /\ ~loc[p].cleanupOk
        /\ loc[p].outcome = "returned"
        /\ Cardinality(RowsOf(rows, loc[p].conversationId)) > maxHistoryLength

(* C9: every getConversationHistory call returns (never raises) and leaves  *)
(* the table as it was; its result is empty when the conversation has no    *)
(* rows and when the query failed.                                          *)
C9_HistoryNeverRaises ==
    [][\A p \in Procs :
         (pc'[p] = "done" /\ loc'[p].op = "history") =>
            /\ loc'[p].outcome = "returned"
            /\ rows' = rows
            /\ (loc'[p].failed \/ RowsOf(rows, loc'[p].conversationId) = {})
                  => loc'[p].result = <<>>]_vars

C9_Witness ==
    \E p \in Procs :
        /\ pc[p] = "done" /\ loc[p].op = "history"
        /\ loc[p].failed
        /\ RowsOf(rows, loc[p].conversationId) # {}
        /\ loc[p].result = <<>>

(* C10: while nothing was inserted into a conversation since its successful *)
(* deletion, a getHistory whose query succeeds returns the empty sequence   *)
(* and a deleteConversation whose statement succeeds returns normally.      *)
C10_DeleteThenRead ==
    \A p \in Procs :
        (pc[p] = "done" /\ loc[p].op \in {"history", "delete"}) =>
            ((~loc[p].failed /\ loc[p].emptied # -1) =>
                /\ loc[p].outcome = "returned"
                /\ (loc[p].op = "history" => loc[p].result = <<>>))

C10_Witness ==
    \E p \in Procs :
        /\ pc[p] = "done" /\ loc[p].op = "history"
        /\ ~loc[p].failed
        /\ loc[p].emptied > 0
        /\ loc[p].result = <<>>

C10_WitnessSecondDelete ==
    \E p \in Procs :
        /\ pc[p] = "done" /\ loc[p].op = "delete"
        /\ ~loc[p].failed
        /\ loc[p].emptied > 0
        /\ loc[p].outcome = "returned"

(* C11: a deleteConversation whose DELETE statement failed raises to its    *)
(* caller, and that step leaves every row of the table as it was.           *)
C11_DeleteFailureRaises ==
    [][\A p \in Procs :
         (pc'[p] = "done" /\ loc'[p].op = "delete" /\ loc'[p].failed) =>
            /\ loc'[p].outcome = "raised"
            /\ rows' = rows]_vars

C11_Witness ==
    \E p \in Procs :
        /\ pc[p] = "done" /\ loc[p].op = "delete"
        /\ loc[p].failed
        /\ loc[p].outcome = "raised"
        /\ RowsOf(rows, loc[p].conversationId) # {}

StatsDone(p) == pc[p] = "done" /\ loc[p].op = "stats"

(* C12: a getConversationStats whose queries succeeded returns              *)
(* totalConversations = the number of distinct conversation ids a row was   *)
(* ever inserted for (deleted conversations included) and totalMessages =   *)
(* the number of rows stored.                                               *)
C12_TotalConversationsEverStored ==
    StatsDone(Caller) =>
        (~loc[Caller].failed =>
            /\ loc[Caller].result.totalConversations = Cardinality(everStored)
            /\ loc[Caller].result.totalMessages = Cardinality(rows))

(* C13, as claimed: every successful getConversationStats returns           *)
(* totalMessages = the number of rows stored, and a value below that of the *)
(* successful call before it only if a deleteConversation removed rows      *)
(* between the two.                                                         *)
C13_TotalMessagesMonotone ==
    \A p \in Procs :
        (StatsDone(p) /\ ~loc[p].failed) =>
            /\ loc[p].result.totalMessages = Cardinality(rows)
            /\ (/\ loc[p].previous.total # -1
                /\ loc[p].result.totalMessages < loc[p].previous.total)
               => "delete" \in loc[p].previous.removedBy

(* C13, amended: every successful getConversationStats returns              *)
(* totalMessages = the number of rows stored at its row count, and a value  *)
(* below that of the successful call before it only if a deleteConversation *)
(* or a retention step removed rows between the two row counts.             *)
C13_TotalMessagesDecreaseByRemoval ==
    \A p \in Procs :
        (StatsDone(p) /\ ~loc[p].failed) =>
            /\ loc[p].result.totalMessages = Cardinality(rows)
            /\ (/\ loc[p].previous.total # -1
                /\ loc[p].result.totalMessages < loc[p].previous.total)
               => loc[p].previous.removedBy # {}

C13_Witness ==
    \E p \in Procs :
        /\ StatsDone(p) /\ ~loc[p].failed
        /\ loc[p].previous.total # -1
        /\ loc[p].result.totalMessages < loc[p].previous.total
        /\ loc[p].previous.removedBy = {"retention"}

(* C14: a getConversationStats one of whose two queries failed returns      *)
(* (it does not raise) totalConversations = 0 and totalMessages = 0, also   *)
(* when its first query had succeeded and rows are stored.                  *)
C14_StatsFailSoft ==
    \A p \in Procs :
        (StatsDone(p) /\ loc[p].failed) =>
            /\ loc[p].outcome = "returned"
            /\ loc[p].result = [totalConversations |-> 0, totalMessages |-> 0]

C14_Witness ==
    \E p \in Procs :
        /\ StatsDone(p) /\ loc[p].failed
        /\ loc[p].conversationsResult # NoResult
        /\ loc[p].conversationsResult.count > 0
        /\ rows # {}
        /\ loc[p].result = [totalConversations |-> 0, totalMessages |-> 0]

(* C15: one caller appending one call after another: every successful       *)
(* getConversationHistory returns the stored messages of the conversation   *)
(* in the order of the append calls (ids are generated in call order), also *)
(* when successive appends got the same millisecond timestamp.              *)
C15_HistoryInCallOrder ==
    (pc[Caller] = "done" /\ loc[Caller].op = "history" /\ ~loc[Caller].failed) =>
        \A a, b \in 1..Len(loc[Caller].result) :
            a < b => loc[Caller].result[a].id < loc[Caller].result[b].id

----------------------------------------------------------------------------
(* Claims about getRateLimitStatus, the fail-open path and the windows *)

RLDone(p) == pc[p] = "done" /\ loc[p].op \in {"check", "status"}

StatusDone(p) == pc[p] = "done" /\ loc[p].op = "status"

RLStarts(p) == pc[p] \in {"idle", "done"} /\ pc'[p] \in {"rl_get", "st_get"}

(* the count the store holds for an identifier and a window at instant t *)
CountHeld(i, w, t) ==
    IF kv[KeyOf(i)] = NoEntry \/ t >= kv[KeyOf(i)].expires THEN 0
    ELSE IF Stored(i).window = w THEN Stored(i).count ELSE 0

(* C16: a getRateLimitStatus call never changes the key-value store, at   *)
(* its start or at its get (so a later checkRateLimit, whose result depends *)
(* on the store, the clock and the limit only, returns what it would have   *)
(* returned without the call), and a call whose get succeeded returns       *)
(* remaining = max(0, limit - count) and blocked = (limit - count <= 0) for *)
(* the count held for its window.                                           *)
C16_StatusReadOnly ==
    [][\A p \in Procs :
         /\ ((pc[p] = "st_get") # (pc'[p] = "st_get")) => kv' = kv
         /\ (pc[p] = "st_get" /\ StatusDone(p)' /\ ~loc'[p].failed) =>
              LET count == CountHeld(loc[p].identifier, loc[p].windowStart, now)
              IN  /\ loc'[p].result.remaining = Max(0, limitPerMinute - count)
                  /\ loc'[p].result.blocked = (limitPerMinute - count <= 0)]_vars

C16_Witness ==
    \E p \in Procs :
        /\ StatusDone(p) /\ ~loc[p].failed
        /\ CountHeld(loc[p].identifier, loc[p].windowStart, now) = 1
        /\ loc[p].result.remaining = limitPerMinute - 1
        /\ ~loc[p].result.blocked

C16_WitnessBlocked ==
    \E p \in Procs :
        /\ StatusDone(p) /\ ~loc[p].failed
        /\ CountHeld(loc[p].identifier, loc[p].windowStart, now) = limitPerMinute
        /\ loc[p].result.blocked

(* C17: every checkRateLimit or getRateLimitStatus call that turned a       *)
(* storage failure into a fail-open result returned normally and logged an  *)
(* event of level warn for it.                                              *)
C17_FailOpenLoggedAsWarning ==
    \A p \in Procs :
        (RLDone(p) /\ loc[p].failed) =>
            /\ loc[p].outcome = "returned"
            /\ \E k \in 1..Len(loc[p].log) : loc[p].log[k] = "warn"

(* C18: a getRateLimitStatus call whose get failed returns (it does not     *)
(* raise) the fail-open response of checkRateLimit: blocked = FALSE,        *)
(* remaining = limit - 1.                                                   *)
C18_StatusFailOpenAsCheck ==
    \A p \in Procs :
        (StatusDone(p) /\ loc[p].failed) =>
            /\ loc[p].outcome = "returned"
            /\ loc[p].result.blocked = FALSE
            /\ loc[p].result.remaining = limitPerMinute - 1

(* C19: the window end fixed at the start of a call is later than the       *)
(* instant of the call and at most WindowMs after it, and every result of   *)
(* checkRateLimit and getRateLimitStatus (normal or fail-open) has          *)
(* remaining in 0..limit, blocked only with remaining = 0, and resetTime =  *)
(* that window end.                                                         *)
C19_ResultWellFormed ==
    [][\A p \in Procs :
         /\ RLStarts(p) =>
              /\ now < loc'[p].windowEnd
              /\ loc'[p].windowEnd <= now + WindowMs
         /\ (pc[p] \in {"rl_get", "rl_put", "st_get"}) =>
              loc'[p].windowEnd = loc[p].windowEnd
         /\ RLDone(p)' =>
              /\ loc'[p].outcome = "returned"
              /\ loc'[p].result.remaining \in 0..limitPerMinute
              /\ loc'[p].result.blocked \in BOOLEAN
              /\ loc'[p].result.blocked => loc'[p].result.remaining = 0
              /\ loc'[p].result.resetTime = loc'[p].windowEnd]_vars

C19_Witness ==
    \E p \in Procs :
        /\ StatusDone(p) /\ loc[p].failed
        /\ loc[p].result.remaining = limitPerMinute
        /\ loc[p].result.resetTime = 2 * WindowMs
        /\ now = 2 * WindowMs - 1
        /\ kv[loc[p].key] # NoEntry
        /\ Stored(loc[p].identifier) = [count |-> limitPerMinute, window |-> WindowMs]

(* C20: one caller: the window fixed at the start of a call at instant t is *)
(* the multiple w of WindowMs with w <= t < w + WindowMs, and a call without *)
(* storage failure whose store operations fall inside its window reads as   *)
(* count the number of calls admitted before it in that same window: a call *)
(* at exactly WindowMs starts from 0, a call at WindowMs - 1 counts against *)
(* the window of 0.                                                         *)
C20_WindowBoundary ==
    [][/\ RLStarts(Caller) =>
            LET w == loc'[Caller].windowStart
            IN  /\ w % WindowMs = 0
                /\ w <= now /\ now < w + WindowMs
                /\ now = WindowMs => w = WindowMs
                /\ now = WindowMs - 1 => w = 0
       /\ (CheckDone(Caller)' /\ ~loc'[Caller].failed) =>
            LET i == loc'[Caller].identifier
                w == loc'[Caller].windowStart
            IN  ~dirty'[i][w] =>
                  loc'[Caller].count =
                     admitted'[i][w] - (IF loc'[Caller].result.blocked THEN 0 ELSE 1)]_vars

C20_Witness ==
    /\ now = WindowMs
    /\ CheckDone(Caller) /\ ~loc[Caller].failed
    /\ loc[Caller].windowStart = WindowMs
    /\ ~dirty[loc[Caller].identifier][WindowMs]
    /\ admitted[loc[Caller].identifier][0] = limitPerMinute
    /\ loc[Caller].current # Null
    /\ JSONparse(loc[Caller].current) = [count |-> limitPerMinute, window |-> 0]
    /\ loc[Caller].count = 0
    /\ ~loc[Caller].result.blocked

C20_WitnessLastMillisecond ==
    /\ now = WindowMs - 1
    /\ CheckDone(Caller) /\ ~loc[Caller].failed
    /\ loc[Caller].windowStart = 0
    /\ ~dirty[loc[Caller].identifier][0]
    /\ loc[Caller].count = limitPerMinute
    /\ loc[Caller].result.blocked

----------------------------------------------------------------------------
(* Claims about retention, expiry and retries *)

CleanupStep(p) == pc[p] = "sm_cleanup" /\ pc'[p] = "done" /\ loc'[p].cleanupOk

(* C21: a cleanupConversation statement that succeeds deletes rows of its   *)
(* conversation only, keeps min(maxHistoryLength, rows stored) of them,     *)
(* none older than a deleted one, deletes nothing when at most              *)
(* maxHistoryLength rows are stored, and running the statement again on the *)
(* rows it leaves deletes nothing (whoever runs it: the statements of       *)
(* concurrent callers take effect one after another).                      *)
C21_RetentionIdempotent ==
    [][\A p \in Procs :
         CleanupStep(p) =>
            LET c  == loc[p].conversationId
                S  == RowsOf(rows, c)
                S2 == RowsOf(rows', c)
            IN  /\ rows' \subseteq rows
                /\ rows \ rows' \subseteq S
                /\ Cardinality(S2) = Min(maxHistoryLength, Cardinality(S))
                /\ \A k \in S2, r \in S \ S2 : ~TextLess(k.timestamp, r.timestamp)
                /\ Cardinality(S) <= maxHistoryLength => rows' = rows
                /\ \A kept \in TopByTimestampDesc(rows', c, maxHistoryLength) :
                      DeleteNotIn(rows', c, kept) = rows']_vars

C21_Witness ==
    \E p \in Procs :
        /\ pc[p] = "done" /\ loc[p].op = "store" /\ loc[p].cleanupOk
        /\ Len(appended[loc[p].conversationId]) = maxHistoryLength + 1
        /\ Cardinality(RowsOf(rows, loc[p].conversationId)) = maxHistoryLength
        /\ \E r \in rows : r.timestamp # loc[p].message.timestamp

(* C25: every write of a counter sets its expiry 2 * WindowMs after the     *)
(* write, no step removes a counter from the store, and a counter tagged    *)
(* with a window is not expired at any instant of that window.              *)
C25_ExpiryOutlastsWindow ==
    [][\A k \in Keys :
         /\ kv[k] # NoEntry => kv'[k] # NoEntry
         /\ kv'[k] # kv[k] =>
              /\ kv'[k].expires = now + 2 * WindowMs
              /\ kv'[k].expires >= WindowEnd(JSONparse(kv'[k].value).window)
         /\ (kv'[k] # NoEntry /\ now' < WindowEnd(JSONparse(kv'[k].value).window)) =>
              KvGet(kv', k, now') = kv'[k].value]_vars

C25_Witness ==
    \E i \in Identifiers :
        /\ kv[KeyOf(i)] # NoEntry
        /\ Stored(i).window = WindowMs
        /\ kv[KeyOf(i)].expires > 2 * WindowMs
        /\ now = 2 * WindowMs - 1
        /\ admitted[i][0] > 0

(* C26: a checkRateLimit call issues one get and at most one put, a         *)
(* getRateLimitStatus call one get and no put, and a call whose get or put  *)
(* failed has ended with that operation.                                    *)
C26_NoRetry ==
    \A p \in Procs :
        /\ pc[p] \in {"rl_get", "st_get"} =>
             loc[p].gets = 0 /\ loc[p].puts = 0 /\ ~loc[p].failed
        /\ pc[p] = "rl_put" =>
             loc[p].gets = 1 /\ loc[p].puts = 0 /\ ~loc[p].failed
        /\ RLDone(p) =>
             /\ loc[p].gets = 1
             /\ loc[p].puts <= (IF loc[p].op = "check" THEN 1 ELSE 0)
             /\ (loc[p].op = "check" /\ ~loc[p].failed) =>
                   loc[p].puts = (IF loc[p].result.blocked THEN 0 ELSE 1)

C26_Witness ==
    \E p \in Procs :
        /\ CheckDone(p) /\ loc[p].failed
        /\ loc[p].gets = 1 /\ loc[p].puts = 1
        /\ kv[loc[p].key] = NoEntry

(* C30: under every interleaving, every counter held in the key-value store *)
(* has 1 <= count <= limit.                                                 *)
C30_StoredCountWithinLimit ==
    \A i \in Identifiers :
        kv[KeyOf(i)] # NoEntry =>
            Stored(i).count >= 1 /\ Stored(i).count <= limitPerMinute

C30_Witness ==
    \E i \in Identifiers, p \in Procs :
        /\ kv[KeyOf(i)] # NoEntry
        /\ Stored(i).count = limitPerMinute
        /\ pc[p] = "rl_put"
        /\ loc[p].key = KeyOf(i)
        /\ loc[p].windowStart = Stored(i).window
        /\ loc[p].count = limitPerMinute - 1

----------------------------------------------------------------------------
(* Claims about the HTTP layer *)

Responded == req.step = "responded"

AgentRequestInHand == req.step # "none" /\ Route(req.request) = "handleAgentRequest" /\ req.request.key

(* what the claim calls a body that fails validation *)
WronglyTyped(field, types) == field.type \notin types \cup {"undefined"}

FailsValidation(body) ==
    \/ ~body.isObject
    \/ body.message.type # "string"
    \/ \A k \in 1..Len(body.message.value) : body.message.value[k] = " "
    \/ WronglyTyped(body.conversationId, {"string"})
    \/ WronglyTyped(body.userId, {"string"})
    \/ WronglyTyped(body.metadata, {"object"})

C28_CorsOnEveryResponse ==
    Responded => <<"Access-Control-Allow-Origin", "*">> \in req.response.headers

(* the 500 of the catch block of handleAgentRequest, built without the headers, *)
(* is returned with them                                                        *)
C28_Witness ==
    /\ Responded
    /\ AgentRequestInHand
    /\ req.response.status = 500
    /\ <<"Access-Control-Allow-Origin", "*">> \in req.response.headers

BlockedRequest == req.step # "none" /\ req.rateLimitInfo # NoResult /\ req.rateLimitInfo.blocked

(* C29: a POST /agent whose rate-limit check returns blocked = TRUE is     *)
(* answered 429 by the step that ends the check; no message is appended,   *)
(* the counters are as they were when the request arrived, and no keyword, *)
(* search or model call is made                                            *)
C29_BlockedRequestWritesNothing ==
    BlockedRequest
    => /\ Responded
       /\ req.response.status = 429
       /\ req.events = <<<<"check", "start">>, <<"check", "end">>>>
       /\ req.sent = <<>>
       /\ kv = req.kvAtStart
       /\ rows = req.rowsAtStart

(* the request after limitPerMinute admitted ones is blocked and answered 429 *)
C29_Witness ==
    /\ BlockedRequest
    /\ Responded
    /\ req.response.status = 429
    /\ kv[KeyOf(req.clientId)] # NoEntry
    /\ JSONparse(kv[KeyOf(req.clientId)].value).count = limitPerMinute

(* the five steps of an admitted request, in the order of the claim *)
StepOrder == <<"check", "append_user", "history", "model", "append_assistant">>

StepEvents == SelectSeq(req.events, LAMBDA e : e[1] \notin {"init", "keywords", "search", "store_context"})

Appending(role) ==
    /\ pc[Caller] \in {"sm_insert", "sm_cleanup"}
    /\ loc[Caller].message.role = role

(* C22: the starts and ends of the rate-limit check, the append of the user *)
(* message, the read of the history, the model call and the append of the   *)
(* assistant message alternate in that order, a step that failed being the  *)
(* last one; the store operations in progress are those of the step that    *)
(* has started and not ended, and while the assistant message is being      *)
(* appended the model call has ended with the response being stored         *)
C22_StepsInOrder ==
    AgentRequestInHand
    => LET steps == StepEvents
           n     == Len(steps)
       IN  /\ \A k \in 1..n :
                /\ steps[k][1] = StepOrder[(k + 1) \div 2]
                /\ IF k % 2 = 1 THEN steps[k][2] = "start"
                                ELSE \/ steps[k][2] = "end"
                                     \/ steps[k][2] = "failed" /\ k = n
           /\ pc[Caller] \in {"rl_get", "rl_put"} => n = 1 /\ rows = req.rowsAtStart
           /\ Appending("user") => n = 3
           /\ Appending("assistant")
                => /\ n = 9
                   /\ steps[8] = <<"model", "end">>
                   /\ req.sent # <<>>
                   /\ loc[Caller].message.content = req.aiResponse
           /\ req.sent # <<>> => n >= 7 /\ steps[6] = <<"history", "end">>

(* a request that went through all five steps and was answered 200 *)
C22_Witness ==
    /\ AgentRequestInHand
    /\ Responded
    /\ req.response.status = 200
    /\ Len(StepEvents) = 10
    /\ StepEvents[10] = <<"append_assistant", "end">>

Logged(name, what) == \E k \in 1..Len(req.events) : req.events[k] = <<name, what>>

LastEvent == req.events[Len(req.events)]

(* C23: after a failed keyword extraction or context search the request    *)
(* goes on to the model call, the context is empty and the system message  *)
(* sent to the model has no context in it, and a 500 comes from the model  *)
(* call or the append of the assistant message only; a failed context      *)
(* store is followed by the 200 response                                   *)
C23_EnrichmentFailureNeverAborts ==
    AgentRequestInHand
    => /\ (Logged("keywords", "failed") \/ Logged("search", "failed"))
            => /\ Logged("model", "start")
               /\ req.relevantContext = <<>>
               /\ req.sent # <<>> => req.sent[1] = [role |-> "system", content |-> SystemPrompt]
               /\ Responded => req.sent # <<>>
               /\ (Responded /\ req.response.status # 200)
                    => LastEvent \in {<<"model", "failed">>, <<"append_assistant", "failed">>}
       /\ Logged("store_context", "failed") => Responded /\ req.response.status = 200

(* a request whose context search and context store both failed is answered 200 *)
C23_Witness ==
    /\ AgentRequestInHand
    /\ Responded
    /\ req.response.status = 200
    /\ Logged("search", "failed")
    /\ Logged("store_context", "failed")
    /\ req.sent # <<>>

(* a request whose keyword extraction failed is answered 200 *)
C23_WitnessKeywords ==
    /\ AgentRequestInHand
    /\ Responded
    /\ req.response.status = 200
    /\ Logged("keywords", "failed")

StorageSteps == {"check", "init", "append_user", "history", "append_assistant"}

ServerError == AgentRequestInHand /\ Responded /\ req.response.status >= 500

(* C24: no 5xx response of POST /agent is produced by a failed store       *)
(* operation: the request makes no deletion, so the step whose failure     *)
(* ended a request answered 5xx is none of the rate-limit check, the table *)
(* initialisation, the appends and the history read                        *)
C24_NoServerErrorFromStorage ==
    (ServerError /\ req.events # <<>>)
    => ~(LastEvent[2] = "failed" /\ LastEvent[1] \in StorageSteps)

(* the part of C24 about the rate-limit check and the history read (and the *)
(* retention step): their failures alone are followed by no 5xx other than  *)
(* that of a failed model call                                              *)
C24_SoftFailuresGiveNoServerError ==
    (ServerError /\ req.failures # {} /\ req.failures \subseteq {"check", "history", "retention"})
    => LastEvent = <<"model", "failed">>

(* a request whose rate-limit check and history read both failed is answered 200 *)
C24_WitnessSoftFailures ==
    /\ AgentRequestInHand
    /\ Responded
    /\ {"check", "history"} \subseteq req.failures
    /\ req.response.status = 200

----------------------------------------------------------------------------
(* Claims about windows, identifiers and the status call *)

(* C31: under every interleaving, a write never replaces a stored counter  *)
(* by one tagged with an earlier window                                    *)
C31_WindowTagNeverBackwards ==
    [][\A k \in Keys :
         (kv[k] # NoEntry /\ kv'[k] # kv[k])
         => JSONparse(kv'[k].value).window >= JSONparse(kv[k].value).window]_vars

(* C31, as the code has it: every write is that of a checkRateLimit call   *)
(* completing its put, tagged with the window in which the call started,   *)
(* never a window after the current one; it replaces a later tag only when *)
(* the window of the writing call is over                                  *)
C31_WindowTagOfCallStart ==
    [][\A k \in Keys :
         kv'[k] # kv[k]
         => \E p \in Procs :
              /\ pc[p] = "rl_put"
              /\ pc'[p] = "done"
              /\ loc[p].key = k
              /\ JSONparse(kv'[k].value).window = loc[p].windowStart
              /\ loc[p].windowStart <= WindowStart(now)
              /\ (kv[k] # NoEntry /\ loc[p].windowStart < JSONparse(kv[k].value).window)
                   => now >= loc[p].windowEnd]_vars

(* a counter of window 0 is stored in window WindowMs after a call that    *)
(* started in window WindowMs had stored its own                           *)
C31_Witness ==
    \E i \in Identifiers :
        /\ kv[KeyOf(i)] # NoEntry
        /\ Stored(i).window = 0
        /\ WindowStart(now) = WindowMs
        /\ admitted[i][WindowMs] > 0
        /\ ~dirty[i][WindowMs]

(* a step of the rate-limit call of context p *)
RLStep(p) == pc[p] \in {"rl_get", "rl_put", "st_get"} /\ pc'[p] # pc[p]

(* C32: a step of a call for identifier a leaves the entry of every other  *)
(* key as it is, and what a successful get hands to the call is the entry  *)
(* of the key of a; so the count stored for an identifier never exceeds    *)
(* the number of calls admitted for that identifier in the stored window,  *)
(* whatever calls are made for other identifiers                           *)
C32_PartitionedByIdentifier ==
    [][/\ \A p \in Procs :
            RLStep(p)
            => /\ \A i \in Identifiers \ {loc[p].identifier} : kv'[KeyOf(i)] = kv[KeyOf(i)]
               /\ (pc[p] \in {"rl_get", "st_get"} /\ ~loc'[p].failed)
                    => loc'[p].current = KvGet(kv, KeyOf(loc[p].identifier), now)
       /\ \A i \in Identifiers :
            kv'[KeyOf(i)] # NoEntry
            => JSONparse(kv'[KeyOf(i)].value).count
                 <= admitted'[i][JSONparse(kv'[KeyOf(i)].value).window]]_vars

(* a call for u1 has stored its counter while the counter of u2, stored  *)
(* before, is still there                                                *)
C32_Witness ==
    /\ kv[KeyOf("u1")] # NoEntry
    /\ kv[KeyOf("u2")] # NoEntry
    /\ \E p \in Procs : CheckDone(p) /\ loc[p].identifier = "u1" /\ loc[p].puts = 1 /\ ~loc[p].failed

(* what peekStatus returns after k admitted calls, as the claim has it *)
PeekAfter(k) == [remaining |-> limitPerMinute - k, blocked |-> k >= limitPerMinute]

(* C33: one caller, no failed store operation, every call inside its       *)
(* window: after k admitted checkRateLimit calls of the window a           *)
(* getRateLimitStatus call returns remaining = limit - k; a                 *)
(* checkRateLimit call made after k admitted ones is blocked exactly when   *)
(* that status is blocked, and otherwise returns the remaining of that      *)
(* status less one                                                          *)
C33_PeekAgreesWithCheck ==
    LET l == loc[Caller]
        i == l.identifier
        w == l.windowStart
    IN  /\ (StatusDone(Caller) /\ ~l.failed /\ l.inWindow /\ ~dirty[i][w])
             => /\ l.result.remaining = PeekAfter(admitted[i][w]).remaining
                /\ l.result.blocked = PeekAfter(admitted[i][w]).blocked
                /\ l.result.resetTime = WindowEnd(w)
        /\ (CheckDone(Caller) /\ ~dirty[i][w])
             => LET k == admitted[i][w] - (IF l.result.blocked THEN 0 ELSE 1)
                IN  /\ l.result.blocked = PeekAfter(k).blocked
                    /\ ~l.result.blocked => l.result.remaining = PeekAfter(k).remaining - 1

(* a status call after limitPerMinute admitted calls of the window reports blocked *)
C33_Witness ==
    /\ StatusDone(Caller)
    /\ ~loc[Caller].failed
    /\ loc[Caller].inWindow
    /\ ~dirty[loc[Caller].identifier][loc[Caller].windowStart]
    /\ admitted[loc[Caller].identifier][loc[Caller].windowStart] = limitPerMinute
    /\ loc[Caller].result.blocked

(* a status call between two admitted calls of the window *)
C33_WitnessBetween ==
    /\ StatusDone(Caller)
    /\ ~loc[Caller].failed
    /\ loc[Caller].inWindow
    /\ ~dirty[loc[Caller].identifier][loc[Caller].windowStart]
    /\ admitted[loc[Caller].identifier][loc[Caller].windowStart] = 1
    /\ loc[Caller].result.remaining = limitPerMinute - 1

----------------------------------------------------------------------------
(* Claims about retrieval, retention and conversations *)

HistoryDone(p) == pc[p] = "done" /\ loc[p].op = "history"

Range(s) == {s[a] : a \in 1..Len(s)}

(* C34: every successful getConversationHistory(c) returns                  *)
(* min(n, maxHistoryLength) rows of c, n the number of rows stored for c,   *)
(* and they are the most recently timestamped ones: a set of rows that the  *)
(* retention step of c would keep, also when more than maxHistoryLength     *)
(* rows are stored after a failed retention step                            *)
C34_HistoryIsMostRecent ==
    (HistoryDone(Caller) /\ ~loc[Caller].failed) =>
        LET l == loc[Caller]
            c == l.conversationId
        IN  /\ Len(l.result) = Min(Cardinality(RowsOf(rows, c)), maxHistoryLength)
            /\ Range(l.result) \in TopByTimestampDesc(rows, c, maxHistoryLength)

(* the conversation a step of the caller's append or delete works on *)
WritesTo(c) ==
    \/ pc[Caller] \in {"sm_insert", "sm_cleanup"} /\ pc'[Caller] # pc[Caller]
         /\ loc[Caller].conversationId = c
    \/ pc'[Caller] = "done" /\ loc'[Caller].op = "delete"
         /\ loc'[Caller].conversationId = c /\ rows' # rows

(* C35: the insert and the retention step of storeMessage(c) and            *)
(* deleteConversation(c) change rows of conversation c only: the rows of    *)
(* every other conversation d, and with them the sequences                  *)
(* getConversationHistory(d) can return, are the same before and after;     *)
(* no other step changes the table                                          *)
C35_OtherConversationsUntouched ==
    [][/\ \A c \in ConversationIds : WritesTo(c) =>
             \A d \in ConversationIds \ {c} :
                 /\ RowsOf(rows', d) = RowsOf(rows, d)
                 /\ SelectByTimestampAsc(rows', d, maxHistoryLength)
                      = SelectByTimestampAsc(rows, d, maxHistoryLength)
       /\ rows' # rows => \E c \in ConversationIds : WritesTo(c)]_vars

(* a retention step of one conversation has run while the other holds a row *)
C35_Witness ==
    /\ pc[Caller] = "done"
    /\ loc[Caller].op = "store"
    /\ loc[Caller].cleanupOk
    /\ loc[Caller].conversationId = "c1"
    /\ Cardinality(RowsOf(rows, "c1")) = maxHistoryLength
    /\ RowsOf(rows, "c2") # {}

(* a deletion has removed the rows of one conversation while the other holds a row *)
C35_WitnessDelete ==
    /\ pc[Caller] = "done"
    /\ loc[Caller].op = "delete"
    /\ ~loc[Caller].failed
    /\ loc[Caller].conversationId = "c1"
    /\ emptied["c1"] > 0
    /\ RowsOf(rows, "c2") # {}

(* no append to conversation c is between its start and its end *)
Quiescent(c) ==
    \A q \in Procs :
        pc[q] \in {"sm_insert", "sm_cleanup"} => loc[q].conversationId # c

(* the inserts into c did not happen in the order in which the calls were   *)
(* started (ids are given at the start of a call): two calls overlapped     *)
Overlapped(c) ==
    \E a, b \in 1..Len(appended[c]) : a < b /\ appended[c][a] > appended[c][b]

(* C36: concurrent appends to one conversation: when the last of them to    *)
(* finish has completed with a successful retention step and no append to   *)
(* the conversation is in progress, the conversation holds at most          *)
(* maxHistoryLength rows, whatever the order of the inserts and the         *)
(* retention steps of the calls was                                         *)
C36_CapAtQuiescence ==
    \A p \in Procs :
        (/\ pc[p] = "done"
         /\ loc[p].op = "store"
         /\ loc[p].cleanupOk
         /\ Quiescent(loc[p].conversationId))
        => Cardinality(RowsOf(rows, loc[p].conversationId)) <= maxHistoryLength

(* two overlapping appends have both finished, the retention step of the    *)
(* last one has cut the conversation back to the cap                        *)
C36_Witness ==
    \E p \in Procs :
        /\ pc[p] = "done"
        /\ loc[p].op = "store"
        /\ loc[p].cleanupOk
        /\ Quiescent(loc[p].conversationId)
        /\ Overlapped(loc[p].conversationId)
        /\ ~faulty[loc[p].conversationId]
        /\ Len(appended[loc[p].conversationId]) > maxHistoryLength
        /\ Cardinality(RowsOf(rows, loc[p].conversationId)) = maxHistoryLength

----------------------------------------------------------------------------
(* Claims about the pair returned by getConversationStats *)

(* the relations between the two numbers of one state of the table *)
OneState(result) ==
    /\ result.totalConversations <= result.totalMessages
    /\ (result.totalConversations = 0) = (result.totalMessages = 0)

ConversationsIn(table) == {r.conversationId : r \in table}

(* C37, as claimed: the pair returned by every successful                   *)
(* getConversationStats has totalConversations <= totalMessages and         *)
(* totalConversations = 0 exactly when totalMessages = 0, also when appends *)
(* and deletions of other callers run between its two queries               *)
C37_StatsPairOfOneState ==
    \A p \in Procs :
        (StatsDone(p) /\ ~loc[p].failed) => OneState(loc[p].result)

(* C37, amended: each number is the count of the table at the instant of    *)
(* its own query: totalConversations counts the distinct conversation ids   *)
(* stored when the first query runs, totalMessages the rows stored when the *)
(* second runs; when the first count still describes the table at the       *)
(* second query, the pair has totalConversations <= totalMessages and       *)
(* totalConversations = 0 exactly when totalMessages = 0                    *)
C37_StatsCountsPerQuery ==
    [][\A p \in Procs :
         /\ (pc[p] \in {"idle", "done"} /\ pc'[p] = "gs_messages")
              => loc'[p].conversationsResult.count = Cardinality(ConversationsIn(rows))
         /\ (pc[p] = "gs_messages" /\ pc'[p] = "done" /\ ~loc'[p].failed)
              => /\ loc'[p].result.totalConversations = loc[p].conversationsResult.count
                 /\ loc'[p].result.totalMessages = Cardinality(rows)
                 /\ loc[p].conversationsResult.count = Cardinality(ConversationsIn(rows))
                      => OneState(loc'[p].result)]_vars

(* a deletion between the two queries: one conversation, no message *)
C37_Witness ==
    \E p \in Procs :
        /\ StatsDone(p) /\ ~loc[p].failed
        /\ loc[p].result = [totalConversations |-> 1, totalMessages |-> 0]

(* an append between the two queries: no conversation, one message *)
C37_WitnessAppend ==
    \E p \in Procs :
        /\ StatsDone(p) /\ ~loc[p].failed
        /\ loc[p].result = [totalConversations |-> 0, totalMessages |-> 1]

(* no write between the two queries *)
C37_WitnessOneState ==
    \E p \in Procs :
        /\ StatsDone(p) /\ ~loc[p].failed
        /\ loc[p].result = [totalConversations |-> 1, totalMessages |-> maxHistoryLength]

----------------------------------------------------------------------------
(* Claims about the messages POST /agent stores and sends *)

(* the message of the request in hand is a string that sanitizing empties *)
EmptyAfterSanitizing ==
    /\ AgentRequestInHand
    /\ req.request.json
    /\ req.request.body.isObject
    /\ req.request.body.message.type = "string"
    /\ sanitizeString(req.request.body.message.value) = <<>>

(* C38: every row stored with role user has a non-empty content; a POST     *)
(* /agent whose message is empty after sanitizeString is answered 400, no   *)
(* row is stored for it and nothing is sent to the model                    *)
C38_StoredUserMessageNonEmpty ==
    /\ \A r \in rows : r.role = "user" => r.content # <<>>
    /\ EmptyAfterSanitizing
         => /\ Responded
            /\ req.response.status = 400
            /\ rows = req.rowsAtStart
            /\ req.sent = <<>>

(* the rows behind the entries of req.sent between the system message and  *)
(* the current message                                                      *)
SentHistory == LastN(req.conversationHistory, HistoryWindow)

(* the entries of req.sent are a system message, the rows of SentHistory in *)
(* ascending timestamp order, and the current message as the last entry     *)
SentShape ==
    LET n == Len(req.sent)
    IN  /\ n = Len(SentHistory) + 2
        /\ n - 2 <= HistoryWindow
        /\ req.sent[1].role = "system"
        /\ \A k \in 2..n : req.sent[k].role # "system"
        /\ req.sent[n] = [role |-> "user", content |-> req.message]
        /\ \A k \in 1..(n - 2) :
              /\ req.sent[k + 1].content = SentHistory[k].content
              /\ req.sent[k + 1].role = SentHistory[k].role
              /\ SentHistory[k].conversationId = req.conversationId
        /\ \A a, b \in 1..(n - 2) :
              a < b => /\ SentHistory[a] # SentHistory[b]
                       /\ ~TextLess(SentHistory[b].timestamp, SentHistory[a].timestamp)

(* C39: the list an admitted POST /agent sends to the model is one system   *)
(* message, then at most HistoryWindow earlier messages of the conversation *)
(* (rows stored before the request arrived) in ascending order, then the    *)
(* current user message: the message of the request occurs once, as the     *)
(* last entry, and not among the history entries                            *)
C39_CurrentMessageSentOnce ==
    (req.step # "none" /\ req.sent # <<>>) =>
        /\ SentShape
        /\ \A k \in 1..Len(SentHistory) : SentHistory[k] \in req.rowsAtStart

----------------------------------------------------------------------------
(* Claims about what a POST /agent request leaves behind *)

Times(name, what) == Cardinality({k \in 1..Len(req.events) : req.events[k] = <<name, what>>})

ModelFailed == AgentRequestInHand /\ Logged("model", "failed")

CountAt(store, i) == IF store[KeyOf(i)] = NoEntry THEN 0 ELSE JSONparse(store[KeyOf(i)].value).count

(* the rows the request in hand has added to its conversation *)
OwnRows(role, content) ==
    {r \in rows \ req.rowsAtStart :
       r.conversationId = req.conversationId /\ r.role = role /\ r.content = content}

(* what holds of a request answered 200 and of one whose model call failed *)
C40_AtResponse ==
    AgentRequestInHand =>
        /\ (Responded /\ req.response.status = 200)
             => /\ Times("append_user", "end") = 1
                /\ Times("append_assistant", "end") = 1
                /\ Times("append_user", "start") = 1
                /\ Times("append_assistant", "start") = 1
                /\ \E a, b \in 1..Len(req.events) :
                      /\ a < b
                      /\ req.events[a] = <<"append_user", "end">>
                      /\ req.events[b] = <<"append_assistant", "start">>
                /\ Len(appended[req.conversationId]) >= 2
        /\ ModelFailed
             => /\ Responded
                /\ req.response.status = 500
                /\ LastEvent = <<"model", "failed">>
                /\ Times("append_user", "end") = 1
                /\ Times("append_assistant", "start") = 0
                /\ "check" \notin req.failures
                     => CountAt(kv, req.clientId) = CountAt(req.kvAtStart, req.clientId) + 1
                /\ Cardinality(RowsOf(req.rowsAtStart, req.conversationId)) < maxHistoryLength
                     => OwnRows("user", req.message) # {}
                /\ OwnRows("assistant", req.aiResponse) = {}

(* what holds of every step of a request *)
C40_Step ==
    /\ appended' # appended
         => /\ req.step \in {"store_user", "store_assistant"}
            /\ pc[Caller] = "sm_insert"
            /\ appended' = [appended EXCEPT ![req.conversationId] =
                                Append(@, loc[Caller].message.id)]
            /\ loc[Caller].message \in rows'
            /\ loc[Caller].message.conversationId = req.conversationId
            /\ loc[Caller].message.role =
                  (IF req.step = "store_user" THEN "user" ELSE "assistant")
            /\ loc[Caller].message.content =
                  (IF req.step = "store_user" THEN req.message ELSE req.aiResponse)
    /\ (req.step = "generate" /\ req'.step = "responded")
         => /\ req'.response.status = 500
            /\ rows' = rows
            /\ appended' = appended
            /\ kv' = kv
    /\ (req.step = "store_user" /\ req'.step = "history")
         => appended[req.conversationId][Len(appended[req.conversationId])]
              = loc[Caller].message.id

(* C40: a POST /agent answered 200 has made exactly one append of its user  *)
(* message and after it exactly one append of the assistant message, both   *)
(* inserted into the conversation of the response; a request whose model    *)
(* call fails is answered 500, starts no append of an assistant message,    *)
(* and the failure undoes nothing: the step that answers changes neither    *)
(* the stored rows nor the counters, so the appended user message stays as  *)
(* the append left it and the counter stays incremented                     *)
C40_AppendsOfARequest == []C40_AtResponse /\ [][C40_Step]_vars

(* the model call of a first request of a conversation failed: 500, the     *)
(* user message stored, no assistant message, the counter incremented       *)
C40_Witness ==
    /\ ModelFailed
    /\ req.response.status = 500
    /\ OwnRows("user", req.message) # {}
    /\ OwnRows("assistant", Reply) = {}
    /\ CountAt(kv, req.clientId) = CountAt(req.kvAtStart, req.clientId) + 1

(* a request answered 200 with its two messages stored *)
C40_WitnessOk ==
    /\ AgentRequestInHand
    /\ Responded
    /\ req.response.status = 200
    /\ OwnRows("user", req.message) # {}
    /\ OwnRows("assistant", req.aiResponse) # {}
    /\ Len(appended[req.conversationId]) = 2

=============================================================================
